---------------------------- MODULE Spec2Model ----------------------------
(***************************************************************************)
(* Verification model of the kiro-gateway concurrency core:                *)
(*   - GlobalRateLimiter          (src/kiro/rate_limiter.py)               *)
(*   - KiroAuthManager            (src/kiro/auth.py)                       *)
(*   - AccountPool                (src/kiro/account_pool.py)               *)
(*   - stream_with_first_token_retry (src/kiro/streaming_core.py)          *)
(*   - chat_completions / request_with_retry                               *)
(*                                (src/kiro/routes_openai.py,              *)
(*                                 src/kiro/http_client.py)                *)
(*   - UsageTracker               (src/kiro/usage_tracker.py)              *)
(*   - KiroHttpClient.request_with_retry on its own                        *)
(*                                (src/kiro/http_client.py)                *)
(*   - the SSE emitters and the routes' stream_wrapper                     *)
(*                                (src/kiro/streaming_openai.py,           *)
(*                                 src/kiro/streaming_anthropic.py)        *)
(*   - AwsEventStreamParser tool calls, deduplicate_tool_calls             *)
(*                                (src/kiro/parsers.py)                    *)
(*   - truncation recovery at request ingress                              *)
(*                                (src/kiro/routes_openai.py,              *)
(*                                 src/kiro/routes_anthropic.py)           *)
(*   - token totals from context usage (src/kiro/streaming_core.py)        *)
(*   - usage limits of an API key     (src/kiro/api_key_manager.py)        *)
(*   - model-name normalization       (src/kiro/model_resolver.py)         *)
(*   - forced token refresh after 403 (src/kiro/auth.py,                   *)
(*                                     src/kiro/http_client.py)            *)
(*                                                                         *)
(* The gateway runs on one asyncio event loop: a coroutine runs without    *)
(* interruption until it suspends (an await that really waits).  Every     *)
(* action below is one such run-to-suspension step of one task.            *)
(***************************************************************************)
EXTENDS Integers, Sequences, FiniteSets, TLC

(***************************************************************************)
(* Bounds of the model.                                                    *)
(***************************************************************************)
NReq == 2          \* request tasks using the rate limiter
MaxTime == 3       \* last clock value explored by the rate-limiter model
Max429 == 2        \* upstream 429 answers seen by the rate limiter

NCaller == 2       \* concurrent callers of one auth manager
MaxEnvSteps == 1   \* clock advances and credential rotations around the auth manager

NAcc == 2          \* Kiro accounts in the pool's table
NWorker == 2       \* request tasks using the account pool
NUTask == 2        \* tasks recording usage
MaxChunks == 2     \* content chunks of one upstream response
NHandler == 2      \* chat requests in flight
MaxRecords == 3    \* usage records created in one run
MaxPoolOps == 3    \* pool operations started in one run
NHCall == 1        \* request_with_retry calls in flight at once
MaxEvents == 3     \* events of one response before its tool calls
MaxTools == 2      \* tool calls of one response
MaxParserEvents == 4   \* tool events of one upstream stream
MaxCalls == 3      \* tool calls handed to deduplicate_tool_calls
MaxIngress == 3    \* requests scanned for truncation recovery
MaxItems == 2      \* messages of one scanned request
MaxSavingStreams == 2  \* streams that end with a truncation
MaxPercentSteps == 40  \* context-usage percentages tried, in steps of PercentStep
PercentStep == 1234567 \* 1.234567 %, in millionths of a percent
MaxUsageRows == 3  \* usage rows recorded for one API key
MaxRowTokens == 2  \* total_tokens of one usage row
MaxLimit == 3      \* largest token or request limit of a key
MaxNameParts == 5  \* dash-separated parts of a model name
MaxArrivals == 4   \* acquire() calls of the slot-queue model
NRefresher == 2    \* requests of one account in flight
MaxStale == 2      \* tokens that upstream stops accepting

T0 == 1            \* clock value at start-up (time.time() is positive)

\* Program constants.
TOKEN_REFRESH_THRESHOLD == 600
EXPIRY_BUFFER == 60
DEFAULT_EXPIRES_IN == 3600
SHORT_EXPIRES_IN == 300     \* an expiresIn the upstream may also answer
REFRESH_HTTP_TIMEOUT == 30
FIRST_TOKEN_MAX_RETRIES == 3
DEFAULT_MAX_INPUT_TOKENS == 200000
MAX_RETRIES == 3
AuthT0 == 1000              \* wall clock when the auth manager is created

Req == 1..NReq
Caller == 1..NCaller
Acc == 1..NAcc
Worker == 1..NWorker
UTask == 1..NUTask
Handler == 1..NHandler
HCall == 1..NHCall
Refresher == 1..NRefresher

VARIABLES
    \* ---- GlobalRateLimiter ----
    rl,            \* the limiter object (fields of GlobalRateLimiter)
    task,          \* per request task: position inside acquire()/release()
    now,           \* time.time()
    arrival,       \* order in which acquire() was called
    admitted       \* order in which acquire() returned

VARIABLES
    \* ---- KiroAuthManager ----
    am,            \* the auth manager object (fields of KiroAuthManager)
    caller,        \* per caller: position inside get_access_token()
    store,         \* the kiro-cli SQLite credential store (auth_kv row)
    clock,         \* datetime.now() seen by the auth manager
    up             \* the refresh endpoint: requests sent, tokens issued

VARIABLES
    \* ---- AccountPool ----
    pool,          \* the pool object (fields of AccountPool)
    db,            \* rows of the kiro_accounts table
    worker,        \* per task: position inside a pool operation
    selections,    \* get_account selections: how many, and the latest one
    expected       \* per account: error reports applied since the last success

VARIABLES
    \* ---- UsageTracker ----
    ut,            \* the tracker object (fields of UsageTracker)
    utask,         \* per task: position inside record_request() or flush()
    usage_db       \* records inserted into the usage table

VARIABLES
    \* ---- first-token retry loop ----
    sr,            \* one stream_with_first_token_retry generator
    out            \* SSE frames it has delivered to the client

VARIABLES
    \* ---- chat_completions ----
    rq             \* per request handler: its position and its resources

VARIABLES
    \* ---- KiroHttpClient.request_with_retry ----
    hc             \* the calls in progress and the auth manager's token

VARIABLES
    \* ---- stream emitters, event-stream parser, truncation recovery ----
    sw,            \* one streamed response: the emitter and what drives it
    ps,            \* one AwsEventStreamParser and the events fed to it
    tr             \* the truncation store and the requests scanned against it

VARIABLES
    \* ---- token accounting, usage limits, model resolver, forced refresh ----
    tk,            \* one call of calculate_tokens_from_context_usage
    lim,           \* one call of verify_api_key with the key's usage
    mr,            \* one call of ModelResolver.resolve
    fr             \* one auth manager and the requests answered 403

rlVars == <<rl, task, now, arrival, admitted>>
authVars == <<am, caller, store, clock, up>>
poolVars == <<pool, db, worker, selections, expected>>

usageVars == <<ut, utask, usage_db>>
fnVars == <<tk, lim, mr, fr>>
streamVars == <<sr, out>>

vars == <<rl, task, now, arrival, admitted, am, caller, store, clock, up,
          pool, db, worker, selections, expected, ut, utask, usage_db,
          sr, out, rq, hc, sw, ps, tr, tk, lim, mr, fr>>

\* What the actions of one component leave unchanged.
nonRL == <<authVars, poolVars, usageVars, streamVars, rq, hc, sw, ps, tr, fnVars>>
nonAuth == <<rlVars, poolVars, usageVars, streamVars, rq, hc, sw, ps, tr, fnVars>>
nonPool == <<rlVars, authVars, usageVars, streamVars, rq, hc, sw, ps, tr, fnVars>>
nonUsage == <<rlVars, authVars, poolVars, streamVars, rq, hc, sw, ps, tr, fnVars>>
nonStream == <<rlVars, authVars, poolVars, usageVars, rq, hc, sw, ps, tr, fnVars>>
nonReq == <<rlVars, authVars, poolVars, usageVars, streamVars, hc, sw, ps, tr, fnVars>>
nonHttp == <<rlVars, authVars, poolVars, usageVars, streamVars, rq, sw, ps, tr, fnVars>>
nonEmit == <<rlVars, authVars, poolVars, usageVars, streamVars, rq, hc, ps, tr, fnVars>>
nonParser == <<rlVars, authVars, poolVars, usageVars, streamVars, rq, hc, sw, tr, fnVars>>
nonTrunc == <<rlVars, authVars, poolVars, usageVars, streamVars, rq, hc, sw, ps, fnVars>>
allButFn == <<rlVars, authVars, poolVars, usageVars, streamVars, rq, hc, sw, ps, tr>>
nonTokens == <<allButFn, lim, mr, fr>>
nonLimits == <<allButFn, tk, mr, fr>>
nonResolver == <<allButFn, tk, lim, fr>>
nonRefresh == <<allButFn, tk, lim, mr>>

(***************************************************************************)
(* asyncio primitives                                                      *)
(***************************************************************************)

\* asyncio.Lock: held by `locked_by` (0 = free); release hands the lock to
\* the first waiter, newcomers queue behind waiting tasks.
FreeLock == [locked_by |-> 0, waiters |-> <<>>]

\* asyncio.Lock.release: wake the first waiter, which then owns the lock.
Unlock(l) ==
    IF l.waiters # <<>>
    THEN [locked_by |-> Head(l.waiters), waiters |-> Tail(l.waiters)]
    ELSE FreeLock

(***************************************************************************)
(* GlobalRateLimiter                                                       *)
(***************************************************************************)

\* GlobalRateLimiter.__init__
NewRateLimiter(mc, mi, bo) ==
    [max_concurrent    |-> mc,
     min_interval      |-> mi,
     backoff_429       |-> bo,
     current_count     |-> 0,
     waiters           |-> <<>>,     \* deque of waiting tasks' events
     event_set         |-> {},       \* tasks whose asyncio.Event is set
     throttle_lock     |-> FreeLock,
     last_request_time |-> 0,
     backoff_until     |-> 0,
     total_requests    |-> 0,
     total_429s        |-> 0,
     total_wait_time   |-> 0,
     max_queue_length  |-> 0]

NewTask == [pc |-> "idle", wait_start |-> 0, wake_at |-> 0,
            start_pause |-> 0,   \* pause_until when acquire() was called
            ret_time |-> 0,      \* time at which acquire() returned
            ret_pause |-> 0]     \* pause_until when acquire() returned

\* The part of the state the limiter's coroutines read and write.
World == [rl |-> rl, task |-> task, admitted |-> admitted]


\* acquire(), lines 104-111: count the request and return to the caller.
AcquireReturn(w, t) ==
    LET total_wait == now - w.task[t].wait_start
    IN [w EXCEPT !.rl.total_requests = @ + 1,
                 !.rl.total_wait_time = @ + total_wait,
                 !.task[t].pc = "active",
                 !.task[t].ret_time = now,
                 !.task[t].ret_pause = w.rl.backoff_until,
                 !.admitted = Append(@, t)]

\* exit of `async with self._throttle_lock`.
ThrottleUnlock(w) ==
    [w EXCEPT !.rl.throttle_lock = Unlock(@)]

\* acquire(), line 102 and the exit of `async with self._throttle_lock`.
ThrottleFinish(w, t) ==
    AcquireReturn(ThrottleUnlock([w EXCEPT !.rl.last_request_time = now]), t)

\* acquire(), lines 97-102: inside the throttle lock, held by t.
ThrottleBody(w, t) ==
    LET elapsed == now - w.rl.last_request_time
    IN IF elapsed < w.rl.min_interval
       THEN [w EXCEPT !.task[t].pc = "throttle_sleep",
                      !.task[t].wake_at = now + (w.rl.min_interval - elapsed)]
       ELSE ThrottleFinish(w, t)

\* acquire(), lines 94-111: step 3, minimum interval between requests.
AcquireThrottle(w, t) ==
    IF w.rl.min_interval > 0
    THEN IF w.rl.throttle_lock = FreeLock
         THEN ThrottleBody([w EXCEPT !.rl.throttle_lock.locked_by = t], t)
         ELSE [w EXCEPT !.rl.throttle_lock.waiters = Append(@, t),
                        !.task[t].pc = "throttle_wait"]
    ELSE AcquireReturn(w, t)

\* acquire(), lines 86-92: step 2, global backoff after a 429.
AcquireBackoff(w, t) ==
    IF w.rl.backoff_429 > 0 /\ now < w.rl.backoff_until
    THEN [w EXCEPT !.task[t].pc = "backoff_sleep",
                   !.task[t].wake_at = now + (w.rl.backoff_until - now)]
    ELSE AcquireThrottle(w, t)

\* _acquire_slot(), lines 113-137: take a slot or join the FIFO queue.
AcquireSlot(w, t) ==
    IF w.rl.current_count < w.rl.max_concurrent
    THEN AcquireBackoff([w EXCEPT !.rl.current_count = @ + 1], t)
    ELSE LET queue_len == Len(w.rl.waiters) + 1
         IN [w EXCEPT !.rl.waiters = Append(@, t),
                      !.rl.max_queue_length = IF queue_len > @ THEN queue_len ELSE @,
                      !.task[t].pc = "slot_wait"]

\* acquire(), lines 68-111, from the call to the first suspension.
AcquireStart(w, t) ==
    LET w1 == [w EXCEPT !.task[t].wait_start = now,
                        !.task[t].start_pause = w.rl.backoff_until]
    IN IF w1.rl.max_concurrent > 0
       THEN AcquireSlot(w1, t)
       ELSE AcquireBackoff(w1, t)

\* release() that decrements the counter even when it passes the slot on.
ReleaseSlot_AlwaysDecrement(w, t) ==
    LET w1 == [w EXCEPT !.task[t] = [NewTask EXCEPT !.pc = "done"]]
    IN IF w1.rl.max_concurrent <= 0
       THEN w1
       ELSE IF w1.rl.waiters # <<>>
            THEN [w1 EXCEPT !.rl.waiters = Tail(@),
                            !.rl.event_set = @ \cup {Head(w1.rl.waiters)},
                            !.rl.current_count = @ - 1]
            ELSE [w1 EXCEPT !.rl.current_count = @ - 1]

\* release(), lines 139-152.
ReleaseSlot(w, t) ==
    LET w1 == [w EXCEPT !.task[t] = [NewTask EXCEPT !.pc = "done"]]
    IN IF w1.rl.max_concurrent <= 0
       THEN w1
       ELSE IF w1.rl.waiters # <<>>
            THEN [w1 EXCEPT !.rl.waiters = Tail(@),
                            !.rl.event_set = @ \cup {Head(w1.rl.waiters)}]
            ELSE [w1 EXCEPT !.rl.current_count = @ - 1]

\* on_429_received() that stores the new deadline without comparing.
On429Received_AlwaysSet(w) ==
    IF w.rl.backoff_429 > 0
    THEN [w EXCEPT !.rl.backoff_until = now + w.rl.backoff_429,
                   !.rl.total_429s = @ + 1]
    ELSE w

\* on_429_received(), lines 154-169.
On429Received(w) ==
    IF w.rl.backoff_429 > 0
    THEN LET new_backoff_until == now + w.rl.backoff_429
         IN IF new_backoff_until > w.rl.backoff_until
            THEN [w EXCEPT !.rl.backoff_until = new_backoff_until,
                           !.rl.total_429s = @ + 1]
            ELSE w
    ELSE w

Commit(w) ==
    /\ rl' = w.rl
    /\ task' = w.task
    /\ admitted' = w.admitted

\* A request task calls acquire().
Acquire(t) ==
    /\ task[t].pc = "idle"
    /\ Commit(AcquireStart(World, t))
    /\ arrival' = Append(arrival, t)
    /\ UNCHANGED <<now, nonRL>>

\* A queued task resumes after its event was set (line 137).
SlotWake(t) ==
    /\ task[t].pc = "slot_wait"
    /\ t \in rl.event_set
    /\ Commit(AcquireBackoff(World, t))
    /\ UNCHANGED <<now, arrival, nonRL>>

\* asyncio.sleep(wait_time) of the backoff step is over (line 92).
BackoffWake(t) ==
    /\ task[t].pc = "backoff_sleep"
    /\ now >= task[t].wake_at
    /\ Commit(AcquireThrottle(World, t))
    /\ UNCHANGED <<now, arrival, nonRL>>

\* A task waiting for the throttle lock obtains it (line 96).
ThrottleGranted(t) ==
    /\ task[t].pc = "throttle_wait"
    /\ rl.throttle_lock.locked_by = t
    /\ Commit(ThrottleBody(World, t))
    /\ UNCHANGED <<now, arrival, nonRL>>

\* asyncio.sleep(wait_time) inside the throttle lock is over (line 101).
ThrottleWake(t) ==
    /\ task[t].pc = "throttle_sleep"
    /\ now >= task[t].wake_at
    /\ Commit(ThrottleFinish(World, t))
    /\ UNCHANGED <<now, arrival, nonRL>>

\* An admitted request finishes and calls release().
Release(t) ==
    /\ task[t].pc = "active"
    /\ Commit(ReleaseSlot(World, t))
    /\ UNCHANGED <<now, arrival, nonRL>>

\* A handler sees an upstream 429 and calls on_429_received().
On429 ==
    /\ rl.total_429s < Max429
    /\ Commit(On429Received(World))
    /\ UNCHANGED <<now, arrival, nonRL>>

\* The clock advances.
Tick ==
    /\ now < MaxTime
    /\ now' = now + 1
    /\ UNCHANGED <<rl, task, arrival, admitted, nonRL>>

\* A limiter as constructed, or one that has just served a first request.
RLInit ==
    /\ \E mc \in 0..2, mi \in 0..1, bo \in {0, 2}, served \in BOOLEAN :
          rl = IF served
               THEN [NewRateLimiter(mc, mi, bo) EXCEPT !.total_requests = 1,
                                                       !.last_request_time = T0]
               ELSE NewRateLimiter(mc, mi, bo)
    /\ task = [t \in Req |-> NewTask]
    /\ now = T0
    /\ arrival = <<>>
    /\ admitted = <<>>

RLNext ==
    \/ \E t \in Req : Acquire(t)
    \/ \E t \in Req : SlotWake(t)
    \/ \E t \in Req : BackoffWake(t)
    \/ \E t \in Req : ThrottleGranted(t)
    \/ \E t \in Req : ThrottleWake(t)
    \/ \E t \in Req : Release(t)
    \/ On429
    \/ Tick

\* time.time() is the wall clock: the system may set it to any value,
\* also to an earlier one.
WallClockSet ==
    /\ \E t \in T0..MaxTime : t # now /\ now' = t
    /\ UNCHANGED <<rl, task, arrival, admitted, nonRL>>

\* on_429_received() calls under a wall clock that can be set.
ClockNext ==
    \/ On429
    \/ WallClockSet

\* The task of a request is cancelled (client disconnect) while it awaits
\* my_event.wait() (line 137): CancelledError leaves _acquire_slot, which
\* has no handler, so the task's event stays in _waiters.
CancelWaiter(w, t) ==
    [w EXCEPT !.task[t].pc = "cancelled"]

\* A request task is cancelled while it waits in the slot queue, before or
\* after a release has set its event.
CancelledInQueue(t) ==
    /\ task[t].pc = "slot_wait"
    /\ Commit(CancelWaiter(World, t))
    /\ UNCHANGED <<now, arrival, nonRL>>

\* A further request arrives under the name of a finished task; it will
\* create an asyncio.Event of its own.
NextRequest(t) ==
    /\ task[t].pc \in {"done", "cancelled"}
    /\ \A i \in 1..Len(rl.waiters) : rl.waiters[i] # t
    /\ Len(arrival) < MaxArrivals
    /\ task' = [task EXCEPT ![t] = NewTask]
    /\ rl' = [rl EXCEPT !.event_set = @ \ {t}]
    /\ UNCHANGED <<now, arrival, admitted, nonRL>>

\* One of the requests of the run calls acquire().
RequestArrives(t) ==
    /\ Len(arrival) < MaxArrivals
    /\ Acquire(t)

\* The slot queue alone (min_interval = 0, backoff_429 = 0), with requests
\* that keep arriving and can be cancelled while queued.
RLQueueInit ==
    /\ \E mc \in 1..2 : rl = NewRateLimiter(mc, 0, 0)
    /\ task = [t \in Req |-> NewTask]
    /\ now = T0
    /\ arrival = <<>>
    /\ admitted = <<>>

RLQueueNext ==
    \/ \E t \in Req : RequestArrives(t)
    \/ \E t \in Req : SlotWake(t)
    \/ \E t \in Req : Release(t)
    \/ \E t \in Req : CancelledInQueue(t)
    \/ \E t \in Req : NextRequest(t)

\* The event loop resumes a task whose event is set, and every admitted
\* request calls release().
RLQueueFairness ==
    \A t \in Req : WF_vars(SlotWake(t)) /\ WF_vars(Release(t))

RLParked ==
    /\ rl = NewRateLimiter(0, 0, 0)
    /\ task = [t \in Req |-> NewTask]
    /\ now = T0
    /\ arrival = <<>>
    /\ admitted = <<>>

(***************************************************************************)
(* KiroAuthManager                                                         *)
(***************************************************************************)

\* Tokens are numbered; 0 stands for None.  expires_at = 0 stands for None.
NoStore == [present |-> FALSE, access_token |-> 0, refresh_token |-> 0, expires_at |-> 0]

\* KiroAuthManager.__init__, lines 116-187.
NewAuthManager(auth_type, sqlite_db, access, refresh, expires) ==
    [auth_type     |-> auth_type,
     sqlite_db     |-> sqlite_db,
     access_token  |-> access,
     refresh_token |-> refresh,
     expires_at    |-> expires,
     lock          |-> FreeLock]

NewCaller == [pc |-> "idle",
              result |-> 0,          \* token returned by get_access_token
              waited |-> FALSE,      \* had to queue for the manager's lock
              stale_at_call |-> FALSE, \* token missing or expiring at the call
              ret_posts |-> 0,       \* refresh requests sent when it finished
              \* While the call is in progress:
              call_posts |-> 0,      \* refresh requests it has sent
              got_400 |-> FALSE,     \* its first refresh request was answered 400
              reloads |-> 0,         \* store reloads made after that answer
              retry_from_store |-> FALSE,  \* the retried request carried the
                                           \* refresh token the store holds
              \* Once _refresh_token_request() has raised:
              failure |-> "none",    \* "HTTP 400" or "other"
              usable |-> FALSE]      \* the held token was unexpired at that time

NewUpstream == [posts |-> 0,         \* refresh POSTs sent so far
                in_flight |-> 0,     \* refresh POSTs not yet answered
                issued |-> 1,        \* last token number handed out
                first_post |-> "none",   \* outcome of the first refresh POST
                first_token |-> 0,       \* access token it returned
                first_expires_at |-> 0,  \* and the expiry stored for it
                finished |-> 0,      \* get_access_token calls that finished
                concurrent |-> TRUE, \* every call started before any finished
                env_steps |-> 0]     \* clock advances and store rotations so far

AWorld == [am |-> am, caller |-> caller, store |-> store, up |-> up]

\* is_token_expiring_soon(), lines 563-577.
is_token_expiring_soon(a) ==
    IF a.expires_at = 0
    THEN TRUE
    ELSE a.expires_at <= clock + TOKEN_REFRESH_THRESHOLD

\* is_token_expired(), lines 579-594.
is_token_expired(a) ==
    IF a.expires_at = 0
    THEN TRUE
    ELSE clock >= a.expires_at

\* _load_credentials_from_sqlite(), lines 203-307.
LoadCredentialsFromSqlite(w) ==
    IF w.store.present
    THEN [w EXCEPT !.am.access_token = w.store.access_token,
                   !.am.refresh_token = w.store.refresh_token,
                   !.am.expires_at = w.store.expires_at]
    ELSE w

\* _save_credentials_to_sqlite(), lines 450-526: UPDATE of the existing row.
SaveCredentialsToSqlite(w) ==
    IF w.am.sqlite_db /\ w.store.present
    THEN [w EXCEPT !.store.access_token = w.am.access_token,
                   !.store.refresh_token = w.am.refresh_token,
                   !.store.expires_at = w.am.expires_at]
    ELSE w

\* `async with self._lock` exit, then `return self._access_token`.
GatReturn(w, c) ==
    [w EXCEPT !.am.lock = Unlock(@),
              !.caller[c].pc = "returned",
              !.caller[c].call_posts = 0,
              !.caller[c].got_400 = FALSE,
              !.caller[c].reloads = 0,
              !.caller[c].retry_from_store = FALSE,
              !.caller[c].result = w.am.access_token,
              !.caller[c].ret_posts = w.up.posts,
              !.up.finished = @ + 1]

\* `async with self._lock` exit on an exception leaving get_access_token.
GatRaise(w, c) ==
    [w EXCEPT !.am.lock = Unlock(@),
              !.caller[c].pc = "raised",
              !.caller[c].call_posts = 0,
              !.caller[c].got_400 = FALSE,
              !.caller[c].reloads = 0,
              !.caller[c].retry_from_store = FALSE,
              !.caller[c].ret_posts = w.up.posts,
              !.up.finished = @ + 1]

\* client.post(...) of a refresh: the request is on the wire (lines 638, 758).
SendRefreshPost(w, c, pc) ==
    [w EXCEPT !.caller[c].pc = pc,
              !.caller[c].call_posts = @ + 1,
              !.caller[c].retry_from_store =
                  (pc = "post_retry" /\ w.am.refresh_token = w.store.refresh_token),
              !.up.posts = @ + 1,
              !.up.in_flight = @ + 1]

\* _refresh_token_request() raises inside get_access_token() (line 839):
\* what failed, and whether the token held then is still unexpired.
RefreshRaises(w, c, failure) ==
    [w EXCEPT !.caller[c].failure = failure,
              !.caller[c].usable = (w.am.access_token # 0 /\ ~is_token_expired(w.am))]

\* _refresh_token_request(), lines 596-611 with the guards of
\* _refresh_token_kiro_desktop (626) and _do_aws_sso_oidc_refresh (725).
RefreshTokenRequest(w, c) ==
    IF w.am.refresh_token = 0
    THEN GatRaise(RefreshRaises(w, c, "other"), c)   \* not set
    ELSE SendRefreshPost(w, c, "post")

\* get_access_token() that refreshes without looking at the held token.
GetAccessTokenBody_AlwaysRefresh(w, c) ==
    RefreshTokenRequest(w, c)

\* get_access_token(), lines 823-839, with the lock held by c.
GetAccessTokenBody(w, c) ==
    IF w.am.access_token # 0 /\ ~is_token_expiring_soon(w.am)
    THEN GatReturn(w, c)
    ELSE LET w1 == IF w.am.sqlite_db /\ is_token_expiring_soon(w.am)
                   THEN LoadCredentialsFromSqlite(w)
                   ELSE w
         IN IF /\ w.am.sqlite_db /\ is_token_expiring_soon(w.am)
               /\ w1.am.access_token # 0 /\ ~is_token_expiring_soon(w1.am)
            THEN GatReturn(w1, c)
            ELSE RefreshTokenRequest(w1, c)

\* get_access_token(), lines 805-823: the call, up to the first suspension.
GetAccessTokenStart(w, c) ==
    LET w1 == [w EXCEPT !.caller[c].stale_at_call =
                            (w.am.access_token = 0 \/ is_token_expiring_soon(w.am)),
                        !.up.concurrent = (@ /\ w.up.finished = 0)]
    IN IF w1.am.lock = FreeLock
       THEN GetAccessTokenBody([w1 EXCEPT !.am.lock.locked_by = c], c)
       ELSE [w1 EXCEPT !.am.lock.waiters = Append(@, c),
                       !.caller[c].pc = "lock_wait",
                       !.caller[c].waited = TRUE]

\* Lines 642-673 and 776-803: a 200 answer of the refresh endpoint carrying
\* accessToken `tok`, optionally a new refreshToken, and expiresIn.
RefreshSucceeded(w, c, tok, new_refresh, expires_in) ==
    LET w1 == [w EXCEPT !.am.access_token = tok,
                        !.am.refresh_token = IF new_refresh # 0 THEN new_refresh ELSE @,
                        !.am.expires_at = clock + expires_in - EXPIRY_BUFFER,
                        !.up.issued = tok,
                        !.up.in_flight = @ - 1,
                        !.up.first_post = IF @ = "none" THEN "ok" ELSE @,
                        !.up.first_token = IF w.up.first_post = "none" THEN tok ELSE @,
                        !.up.first_expires_at =
                            IF w.up.first_post = "none"
                            THEN clock + expires_in - EXPIRY_BUFFER ELSE @]
    IN GatReturn(SaveCredentialsToSqlite(w1), c)

\* get_access_token() without the graceful degradation of lines 843-859.
GatHttpStatusError_AlwaysRaise(w, c, status) ==
    GatRaise(RefreshRaises(w, c, IF status = 400 THEN "HTTP 400" ELSE "other"), c)

\* get_access_token(), lines 840-861: the refresh raised HTTPStatusError.
GatHttpStatusError(w, c, status) ==
    LET w0 == RefreshRaises(w, c, IF status = 400 THEN "HTTP 400" ELSE "other")
    IN IF status = 400 /\ w0.am.sqlite_db
       THEN IF w0.am.access_token # 0 /\ ~is_token_expired(w0.am)
            THEN GatReturn(w0, c)                 \* graceful degradation
            ELSE GatRaise(w0, c)                  \* ValueError
       ELSE GatRaise(w0, c)

RefreshFailed(w) ==
    [w EXCEPT !.up.in_flight = @ - 1,
              !.up.first_post = IF @ = "none" THEN "failed" ELSE @]

\* _refresh_token_aws_sso_oidc() that retries with the token it holds.
FirstPostHttpError_NoReload(w, c, status) ==
    LET w1 == [RefreshFailed(w) EXCEPT !.caller[c].got_400 = (status = 400)]
    IN IF w1.am.auth_type = "AWS_SSO_OIDC" /\ status = 400 /\ w1.am.sqlite_db
       THEN SendRefreshPost(w1, c, "post_retry")
       ELSE GatHttpStatusError(w1, c, status)

\* _refresh_token_aws_sso_oidc(), lines 698-707, and
\* _refresh_token_kiro_desktop(), line 639: the first POST got an HTTP error.
FirstPostHttpError(w, c, status) ==
    LET w1 == [RefreshFailed(w) EXCEPT !.caller[c].got_400 = (status = 400)]
    IN IF w1.am.auth_type = "AWS_SSO_OIDC" /\ status = 400 /\ w1.am.sqlite_db
       THEN LET w2 == [LoadCredentialsFromSqlite(w1) EXCEPT !.caller[c].reloads = @ + 1]
            IN IF w2.am.refresh_token = 0
               THEN GatRaise(RefreshRaises(w2, c, "other"), c)
               ELSE SendRefreshPost(w2, c, "post_retry")
       ELSE GatHttpStatusError(w1, c, status)

ACommit(w) ==
    /\ am' = w.am
    /\ caller' = w.caller
    /\ store' = w.store
    /\ up' = w.up

ExpiresInChoices == {SHORT_EXPIRES_IN, DEFAULT_EXPIRES_IN}

\* A task calls get_access_token().
GetAccessToken(c) ==
    /\ caller[c].pc = "idle"
    /\ ACommit(GetAccessTokenStart(AWorld, c))
    /\ UNCHANGED <<clock, nonAuth>>

\* A queued caller obtains the manager's lock (line 823).
AuthLockGranted(c) ==
    /\ caller[c].pc = "lock_wait"
    /\ am.lock.locked_by = c
    /\ ACommit(GetAccessTokenBody(AWorld, c))
    /\ UNCHANGED <<clock, nonAuth>>

\* The refresh endpoint answers 200.
RefreshOk(c) ==
    /\ caller[c].pc \in {"post", "post_retry"}
    /\ \E new_refresh \in {0, up.issued + 1}, expires_in \in ExpiresInChoices :
           ACommit(RefreshSucceeded(AWorld, c, up.issued + 1, new_refresh, expires_in))
    /\ UNCHANGED <<clock, nonAuth>>

\* The refresh endpoint answers with an HTTP error status.
RefreshHttpError(c) ==
    /\ caller[c].pc = "post"
    /\ \E status \in {400, 500} : ACommit(FirstPostHttpError(AWorld, c, status))
    /\ UNCHANGED <<clock, nonAuth>>

\* The retried OIDC refresh (line 705) answers with an HTTP error status.
RefreshRetryHttpError(c) ==
    /\ caller[c].pc = "post_retry"
    /\ \E status \in {400, 500} :
           ACommit(GatHttpStatusError(RefreshFailed(AWorld), c, status))
    /\ UNCHANGED <<clock, nonAuth>>

\* The refresh POST fails in transport (httpx.RequestError): lines 862-864.
RefreshTransportError(c) ==
    /\ caller[c].pc \in {"post", "post_retry"}
    /\ ACommit(GatRaise(RefreshRaises(RefreshFailed(AWorld), c, "other"), c))
    /\ UNCHANGED <<clock, nonAuth>>

\* The sibling process (kiro-cli) rotates the credentials in the store.
StoreRotate ==
    /\ store.present
    /\ up.env_steps < MaxEnvSteps
    /\ \E fresh \in BOOLEAN :
         /\ store' = [present |-> TRUE,
                      access_token |-> up.issued + 1,
                      refresh_token |-> up.issued + 1,
                      expires_at |-> IF fresh
                                     THEN clock + DEFAULT_EXPIRES_IN - EXPIRY_BUFFER
                                     ELSE clock + SHORT_EXPIRES_IN - EXPIRY_BUFFER]
         /\ up' = [up EXCEPT !.issued = @ + 1, !.env_steps = @ + 1]
    /\ UNCHANGED <<am, caller, clock, nonAuth>>

\* Wall-clock time passes: the duration of a request, or a long idle period.
ClockAdvance ==
    /\ up.env_steps < MaxEnvSteps
    /\ \E d \in {REFRESH_HTTP_TIMEOUT, DEFAULT_EXPIRES_IN} : clock' = clock + d
    /\ up' = [up EXCEPT !.env_steps = @ + 1]
    /\ UNCHANGED <<am, caller, store, nonAuth>>

\* States an auth manager is created in: no token, a token about to expire,
\* or a fresh token; with or without the external store.
AuthInit ==
    /\ clock = AuthT0
    /\ \E sqlite_db \in BOOLEAN, auth_type \in {"KIRO_DESKTOP", "AWS_SSO_OIDC"},
          refresh \in {0, 1},
          tok \in {<<0, 0>>, <<1, AuthT0 + SHORT_EXPIRES_IN>>, <<1, AuthT0 + DEFAULT_EXPIRES_IN>>} :
         /\ am = NewAuthManager(auth_type, sqlite_db, tok[1], refresh, tok[2])
         /\ store = IF sqlite_db
                    THEN [present |-> TRUE, access_token |-> tok[1],
                          refresh_token |-> refresh, expires_at |-> tok[2]]
                    ELSE NoStore
    /\ caller = [c \in Caller |-> NewCaller]
    /\ up = NewUpstream

\* The auth manager left untouched while another component is explored.
AuthParked ==
    /\ clock = AuthT0
    /\ am = NewAuthManager("KIRO_DESKTOP", FALSE, 0, 1, 0)
    /\ store = NoStore
    /\ caller = [c \in Caller |-> NewCaller]
    /\ up = NewUpstream

AuthNext ==
    \/ \E c \in Caller : GetAccessToken(c)
    \/ \E c \in Caller : AuthLockGranted(c)
    \/ \E c \in Caller : RefreshOk(c)
    \/ \E c \in Caller : RefreshHttpError(c)
    \/ \E c \in Caller : RefreshRetryHttpError(c)
    \/ \E c \in Caller : RefreshTransportError(c)
    \/ StoreRotate
    \/ ClockAdvance

(***************************************************************************)
(* AccountPool                                                             *)
(***************************************************************************)

\* AccountPool.__init__, lines 20-32.
NewPool(error_threshold) ==
    [error_threshold |-> error_threshold,
     auth_managers   |-> {},         \* account ids that have a cached manager
     lock            |-> FreeLock,
     current_index   |-> 0,
     ops             |-> 0,          \* operations started (bounds the run)
     handed_out      |-> {},         \* accounts whose cached manager a request holds
     cached_busy     |-> {},         \* ... and has a refresh request in flight
     stale           |-> [a \in Acc |-> 0],  \* evicted managers requests still hold
     stale_busy      |-> [a \in Acc |-> 0]]  \* ... with a refresh request in flight

\* A row of kiro_accounts as the admin creates it.
NewAccount(priority) ==
    [exists |-> TRUE, is_active |-> TRUE, error_count |-> 0, priority |-> priority]

NewWorker == [pc |-> "idle", account_id |-> 0, new_error_count |-> 0]

NoSelection == [count |-> 0, index |-> 0, accounts |-> <<>>, selected |-> 0]

PWorld == [pool |-> pool, db |-> db, worker |-> worker,
           selections |-> selections, expected |-> expected]

\* ORDER BY priority DESC, id (line 145).
RankedBefore(d, a, b) ==
    \/ d[a].priority > d[b].priority
    \/ d[a].priority = d[b].priority /\ a < b

\* _get_healthy_accounts(), lines 131-148: the list the query returns.
GetHealthyAccounts(d, threshold) ==
    LET healthy == {a \in Acc : /\ d[a].exists
                                 /\ d[a].is_active
                                 /\ d[a].error_count < threshold}
        n == Cardinality(healthy)
    IN [i \in 1..n |->
            CHOOSE a \in healthy :
                Cardinality({b \in healthy : RankedBefore(d, b, a)}) = i - 1]

\* _select_next() that forgets to advance the counter.
SelectNext_NoIncrement(w, accounts) ==
    LET selected == accounts[(w.pool.current_index % Len(accounts)) + 1]
    IN [w EXCEPT !.selections = [count |-> @.count + 1,
                                 index |-> w.pool.current_index,
                                 accounts |-> accounts,
                                 selected |-> selected]]

\* _select_next(), lines 150-168.
SelectNext(w, accounts) ==
    LET selected == accounts[(w.pool.current_index % Len(accounts)) + 1]
    IN [w EXCEPT !.pool.current_index = @ + 1,
                 !.selections = [count |-> @.count + 1,
                                 index |-> w.pool.current_index,
                                 accounts |-> accounts,
                                 selected |-> selected]]

\* get_account(), lines 45-62: the healthy list has arrived.
GetAccountSelect(w, k) ==
    LET accounts == GetHealthyAccounts(w.db, w.pool.error_threshold)
    IN IF accounts = <<>>
       THEN [w EXCEPT !.pool.lock = Unlock(@),            \* HTTPException 503
                      !.worker[k] = NewWorker]
       ELSE LET w1 == SelectNext(w, accounts)
            IN [w1 EXCEPT !.pool.auth_managers = @ \cup {w1.selections.selected},
                          !.pool.handed_out = @ \cup {w1.selections.selected},
                          !.pool.lock = Unlock(@),
                          !.worker[k] = NewWorker]

\* get_account(), lines 34-45: the call, up to the first suspension.
GetAccountStart(w, k) ==
    LET w1 == [w EXCEPT !.pool.ops = @ + 1]
    IN IF w1.pool.lock = FreeLock
       THEN [w1 EXCEPT !.pool.lock.locked_by = k, !.worker[k].pc = "ga_query"]
       ELSE [w1 EXCEPT !.pool.lock.waiters = Append(@, k),
                       !.worker[k].pc = "ga_lock_wait"]

\* report_error(), lines 72-74: the call, up to the SELECT.
ReportErrorStart(w, k, account_id) ==
    [w EXCEPT !.pool.ops = @ + 1,
              !.worker[k].pc = "re_select",
              !.worker[k].account_id = account_id]

\* report_error(), lines 75-104: the row has been read.
ReportErrorRead(w, k) ==
    LET a == w.worker[k].account_id
    IN IF ~w.db[a].exists
       THEN [w EXCEPT !.worker[k] = NewWorker]            \* `if not account: return`
       ELSE [w EXCEPT !.worker[k].new_error_count = w.db[a].error_count + 1,
                      !.worker[k].pc = "re_update"]

\* report_error(), lines 87-105: the UPDATE is committed.
ReportErrorCommit(w, k) ==
    LET a == w.worker[k].account_id
        n == w.worker[k].new_error_count
    IN IF ~w.db[a].exists
       THEN [w EXCEPT !.worker[k].pc = "re_evict"]        \* the UPDATE matches no row
       ELSE [w EXCEPT !.db[a].error_count = n,
                      !.db[a].is_active = IF n >= w.pool.error_threshold THEN FALSE ELSE @,
                      !.expected[a] = @ + 1,
                      !.worker[k].pc = "re_evict"]

\* `del self.auth_managers[account_id]` (lines 109 and 291): the pool forgets
\* the manager; the requests that were given it keep using it.
Evict(p, a) ==
    [p EXCEPT !.auth_managers = @ \ {a},
              !.handed_out = @ \ {a},
              !.cached_busy = @ \ {a},
              !.stale[a] = IF a \in p.handed_out THEN @ + 1 ELSE @,
              !.stale_busy[a] = IF a \in p.cached_busy THEN @ + 1 ELSE @]

\* report_error(), lines 107-109: drop the cached manager, return.
ReportErrorEvict(w, k) ==
    LET a == w.worker[k].account_id
        n == w.worker[k].new_error_count
    IN [w EXCEPT !.pool = IF n >= w.pool.error_threshold /\ a \in @.auth_managers
                          THEN Evict(@, a) ELSE @,
                 !.worker[k] = NewWorker]

\* report_success(), lines 118-119: the call, up to the UPDATE.
ReportSuccessStart(w, k, account_id) ==
    [w EXCEPT !.pool.ops = @ + 1,
              !.worker[k].pc = "rs_update",
              !.worker[k].account_id = account_id]

\* report_success() whose UPDATE also switches the account on again.
ReportSuccessCommit_Reactivates(w, k) ==
    LET a == w.worker[k].account_id
    IN IF ~w.db[a].exists
       THEN [w EXCEPT !.worker[k] = NewWorker]
       ELSE [w EXCEPT !.db[a].error_count = 0,
                      !.db[a].is_active = TRUE,
                      !.expected[a] = 0,
                      !.worker[k] = NewWorker]

\* report_success(), lines 119-129: the UPDATE is committed.
ReportSuccessCommit(w, k) ==
    LET a == w.worker[k].account_id
    IN IF ~w.db[a].exists
       THEN [w EXCEPT !.worker[k] = NewWorker]            \* the UPDATE matches no row
       ELSE [w EXCEPT !.db[a].error_count = 0,
                      !.expected[a] = 0,
                      !.worker[k] = NewWorker]

PCommit(w) ==
    /\ pool' = w.pool
    /\ db' = w.db
    /\ worker' = w.worker
    /\ selections' = w.selections
    /\ expected' = w.expected

CanStart(k) == worker[k].pc = "idle" /\ pool.ops < MaxPoolOps

\* A request task calls get_account().
GetAccount(k) ==
    /\ CanStart(k)
    /\ PCommit(GetAccountStart(PWorld, k))
    /\ UNCHANGED nonPool

\* A task queued for the pool lock obtains it and sends the query (line 45).
PoolLockGranted(k) ==
    /\ worker[k].pc = "ga_lock_wait"
    /\ pool.lock.locked_by = k
    /\ PCommit([PWorld EXCEPT !.worker[k].pc = "ga_query"])
    /\ UNCHANGED nonPool

\* The healthy-accounts query returns; select and return (lines 47-62).
GetAccountDone(k) ==
    /\ worker[k].pc = "ga_query"
    /\ PCommit(GetAccountSelect(PWorld, k))
    /\ UNCHANGED nonPool

\* A request task calls report_error() for an account.
ReportError(k) ==
    /\ CanStart(k)
    /\ \E a \in Acc : PCommit(ReportErrorStart(PWorld, k, a))
    /\ UNCHANGED nonPool

ReportErrorSelected(k) ==
    /\ worker[k].pc = "re_select"
    /\ PCommit(ReportErrorRead(PWorld, k))
    /\ UNCHANGED nonPool

ReportErrorCommitted(k) ==
    /\ worker[k].pc = "re_update"
    /\ PCommit(ReportErrorCommit(PWorld, k))
    /\ UNCHANGED nonPool

ReportErrorReturn(k) ==
    /\ worker[k].pc = "re_evict"
    /\ PCommit(ReportErrorEvict(PWorld, k))
    /\ UNCHANGED nonPool

\* A request task calls report_success() for an account.
ReportSuccess(k) ==
    /\ CanStart(k)
    /\ \E a \in Acc : PCommit(ReportSuccessStart(PWorld, k, a))
    /\ UNCHANGED nonPool

ReportSuccessCommitted(k) ==
    /\ worker[k].pc = "rs_update"
    /\ PCommit(ReportSuccessCommit(PWorld, k))
    /\ UNCHANGED nonPool

\* delete_account(), lines 289-292: drop the cached manager, send the DELETE.
DeleteAccountStart(w, k, account_id) ==
    [w EXCEPT !.pool = IF account_id \in @.auth_managers
                       THEN Evict([@ EXCEPT !.ops = @ + 1], account_id)
                       ELSE [@ EXCEPT !.ops = @ + 1],
              !.worker[k].pc = "da_delete",
              !.worker[k].account_id = account_id]

\* The admin deletes an account.
DeleteAccount(k) ==
    /\ CanStart(k)
    /\ \E a \in Acc : PCommit(DeleteAccountStart(PWorld, k, a))
    /\ UNCHANGED nonPool

\* delete_account(), lines 293-297: the DELETE is committed.
DeleteCommitted(k) ==
    /\ worker[k].pc = "da_delete"
    /\ PCommit([PWorld EXCEPT !.db[worker[k].account_id].exists = FALSE,
                              !.worker[k] = NewWorker])
    /\ UNCHANGED nonPool

\* toggle_account(), routes_admin.py lines 400-427: the admin switches an
\* account off or on again; the pool is not told.
ToggleAccount ==
    /\ \E a \in Acc :
          /\ db[a].exists
          /\ db' = [db EXCEPT ![a].is_active = ~@]
    /\ UNCHANGED <<pool, worker, selections, expected, nonPool>>

\* A request that was given a manager calls its get_access_token() or
\* force_refresh(): with the manager's own lock free (auth.py lines 823 and
\* 880) the refresh request goes out.
RefreshStarts ==
    /\ \E a \in Acc :
          \/ /\ a \in pool.handed_out \ pool.cached_busy
             /\ pool' = [pool EXCEPT !.cached_busy = @ \cup {a}]
          \/ /\ pool.stale_busy[a] < pool.stale[a]
             /\ pool' = [pool EXCEPT !.stale_busy[a] = @ + 1]
    /\ UNCHANGED <<db, worker, selections, expected, nonPool>>

\* The refresh endpoint answers and the manager's lock is released.
RefreshEnds ==
    /\ \E a \in Acc :
          \/ /\ a \in pool.cached_busy
             /\ pool' = [pool EXCEPT !.cached_busy = @ \ {a}]
          \/ /\ pool.stale_busy[a] > 0
             /\ pool' = [pool EXCEPT !.stale_busy[a] = @ - 1]
    /\ UNCHANGED <<db, worker, selections, expected, nonPool>>

PoolInit ==
    /\ \E threshold \in {2, 3} : pool = NewPool(threshold)
    /\ \E prio \in [Acc -> {0, 1}] : db = [a \in Acc |-> NewAccount(prio[a])]
    /\ worker = [k \in Worker |-> NewWorker]
    /\ selections = NoSelection
    /\ expected = [a \in Acc |-> 0]

PoolParked ==
    /\ pool = NewPool(3)
    /\ db = [a \in Acc |-> NewAccount(0)]
    /\ worker = [k \in Worker |-> NewWorker]
    /\ selections = NoSelection
    /\ expected = [a \in Acc |-> 0]

PoolNext ==
    \/ \E k \in Worker : GetAccount(k)
    \/ \E k \in Worker : PoolLockGranted(k)
    \/ \E k \in Worker : GetAccountDone(k)
    \/ \E k \in Worker : ReportError(k)
    \/ \E k \in Worker : ReportErrorSelected(k)
    \/ \E k \in Worker : ReportErrorCommitted(k)
    \/ \E k \in Worker : ReportErrorReturn(k)
    \/ \E k \in Worker : ReportSuccess(k)
    \/ \E k \in Worker : ReportSuccessCommitted(k)

\* The pool with the admin's operations and the requests' token refreshes.
PoolAdminNext ==
    \/ PoolNext
    \/ \E k \in Worker : DeleteAccount(k)
    \/ \E k \in Worker : DeleteCommitted(k)
    \/ ToggleAccount
    \/ RefreshStarts
    \/ RefreshEnds

(***************************************************************************)
(* UsageTracker                                                            *)
(***************************************************************************)

\* UsageTracker.__init__, lines 17-28.  Records are numbered as created.
NewUsageTracker(batch_size) ==
    [batch_size      |-> batch_size,
     pending_records |-> <<>>,
     lock            |-> FreeLock,
     created         |-> 0]

\* op: the public method the task is in; batch: records_to_insert.
NewUTask == [pc |-> "idle", op |-> "none", batch |-> <<>>]

UWorld == [ut |-> ut, utask |-> utask, usage_db |-> usage_db]

\* Exit of the outer `async with self.lock` (lines 57, 107), and return.
UsageReturn(w, k) ==
    [w EXCEPT !.ut.lock = Unlock(@), !.utask[k] = NewUTask]

\* _flush_records(), lines 75-92, up to the commit of the bulk insert.
FlushRecords(w, k) ==
    IF w.ut.pending_records = <<>>
    THEN UsageReturn(w, k)
    ELSE [w EXCEPT !.utask[k].batch = w.ut.pending_records,
                   !.ut.pending_records = <<>>,
                   !.utask[k].pc = "insert"]

\* `async with self.lock` (lines 57, 98, 107): take the lock or queue for it.
UsageLock(w, k, wait_pc) ==
    IF w.ut.lock = FreeLock
    THEN [w EXCEPT !.ut.lock.locked_by = k, !.utask[k].pc = "locked"]
    ELSE [w EXCEPT !.ut.lock.waiters = Append(@, k), !.utask[k].pc = wait_pc]

\* The code that runs once the lock is held: the body of record_request()
\* (lines 58-73), of flush() (line 108) or of the except branch (line 99).
UsageLocked(w, k) ==
    IF w.utask[k].pc # "locked"
    THEN w
    ELSE IF w.utask[k].op = "requeue"
    THEN UsageReturn([w EXCEPT !.ut.pending_records = @ \o w.utask[k].batch,
                               !.ut.lock = Unlock(@)], k)
    ELSE IF w.utask[k].op = "record_request"
    THEN LET w1 == [w EXCEPT !.ut.created = @ + 1,
                             !.ut.pending_records = Append(@, w.ut.created + 1)]
         IN IF Len(w1.ut.pending_records) >= w1.ut.batch_size
            THEN FlushRecords(w1, k)
            ELSE UsageReturn(w1, k)
    ELSE FlushRecords(w, k)

UCommit(w) ==
    /\ ut' = w.ut
    /\ utask' = w.utask
    /\ usage_db' = w.usage_db

\* A request task calls record_request() (line 31).
RecordRequest(k) ==
    /\ utask[k].pc = "idle"
    /\ ut.created + Cardinality({j \in UTask : utask[j].op = "record_request"
                                               /\ utask[j].pc = "lock_wait"}) < MaxRecords
    /\ UCommit(UsageLocked(UsageLock([UWorld EXCEPT !.utask[k].op = "record_request"],
                                     k, "lock_wait"), k))
    /\ UNCHANGED nonUsage

\* A task calls flush() (line 101).
Flush(k) ==
    /\ utask[k].pc = "idle"
    /\ UCommit(UsageLocked(UsageLock([UWorld EXCEPT !.utask[k].op = "flush"],
                                     k, "lock_wait"), k))
    /\ UNCHANGED nonUsage

\* A task queued for the tracker's lock is handed the lock by a release.
UsageLockGranted(k) ==
    /\ utask[k].pc \in {"lock_wait", "relock"}
    /\ ut.lock.locked_by = k
    /\ \A i \in 1..Len(ut.lock.waiters) : ut.lock.waiters[i] # k
    /\ UCommit(UsageLocked([UWorld EXCEPT !.utask[k].pc = "locked"], k))
    /\ UNCHANGED nonUsage

\* session.commit() of the bulk insert succeeds (lines 85-92).
InsertCommitted(k) ==
    /\ utask[k].pc = "insert"
    /\ UCommit(UsageReturn([UWorld EXCEPT !.usage_db = @ \o utask[k].batch], k))
    /\ UNCHANGED nonUsage

\* The bulk insert raises: the except branch, lines 94-99, re-enters
\* `async with self.lock`.
InsertFailed(k) ==
    /\ utask[k].pc = "insert"
    /\ UCommit(UsageLocked(UsageLock([UWorld EXCEPT !.utask[k].op = "requeue"],
                                     k, "relock"), k))
    /\ UNCHANGED nonUsage

UsageInit ==
    /\ \E batch_size \in 1..2 : ut = NewUsageTracker(batch_size)
    /\ utask = [k \in UTask |-> NewUTask]
    /\ usage_db = <<>>

UsageParked ==
    /\ ut = NewUsageTracker(1)
    /\ utask = [k \in UTask |-> NewUTask]
    /\ usage_db = <<>>

UsageNext ==
    \/ \E k \in UTask : RecordRequest(k)
    \/ \E k \in UTask : Flush(k)
    \/ \E k \in UTask : UsageLockGranted(k)
    \/ \E k \in UTask : InsertCommitted(k)
    \/ \E k \in UTask : InsertFailed(k)

(***************************************************************************)
(* stream_with_first_token_retry and the stream processors                 *)
(***************************************************************************)

\* The generator before its first step.  processor: the stream_processor
\* it was given; text_block_started: local of stream_kiro_to_anthropic.
NewStream(processor, max_retries) ==
    [processor    |-> processor,
     max_retries  |-> max_retries,
     pc           |-> "start",
     attempt      |-> 0,
     posts        |-> 0,           \* upstream POSTs issued
     delivered_at_post |-> 0,      \* frames delivered when the latest was issued
     response_open |-> FALSE,
     chunks       |-> 0]

SWorld == [sr |-> sr, out |-> out]

Emit(w, frames) == [w EXCEPT !.out = @ \o frames]

\* `response = await make_request()`, streaming_core.py line 434.
MakeRequest(w) ==
    [w EXCEPT !.sr.pc = "request",
              !.sr.posts = @ + 1,
              !.sr.delivered_at_post = Len(w.out),
              !.sr.chunks = 0]

\* What the processor yields before it reads the response:
\* stream_kiro_to_anthropic yields message_start (lines 160-175),
\* stream_kiro_to_openai_internal yields nothing (lines 134-137).
ProcessorStart(w) ==
    LET w1 == [w EXCEPT !.sr.response_open = TRUE, !.sr.pc = "first_wait"]
    IN IF w.sr.processor = "anthropic" THEN Emit(w1, <<"message_start">>) ELSE w1

\* Frames of one content event (streaming_anthropic.py lines 177-215,
\* streaming_openai.py lines 137-161).
ContentFrames(w) ==
    IF w.sr.processor = "anthropic"
    THEN IF w.sr.chunks = 0
         THEN <<"content_block_start", "content_block_delta">>
         ELSE <<"content_block_delta">>
    ELSE <<"chunk">>

\* Frames after the last event (streaming_anthropic.py lines 425-493,
\* streaming_openai.py lines 348-368).
FinalFrames(w) ==
    IF w.sr.processor = "anthropic"
    THEN (IF w.sr.chunks > 0 THEN <<"content_block_stop">> ELSE <<>>)
            \o <<"message_delta", "message_stop">>
    ELSE <<"final_chunk", "[DONE]">>

\* The `finally` of the processor closes the response; the generator ends.
StreamEnds(w, pc) ==
    [w EXCEPT !.sr.response_open = FALSE, !.sr.pc = pc]

\* except FirstTokenTimeoutError, streaming_core.py lines 468-484, and the
\* next turn of `for attempt in range(max_retries)`, lines 427 and 499-504.
RetryAfterTimeout(w) ==
    LET w1 == [w EXCEPT !.sr.response_open = FALSE, !.sr.attempt = @ + 1]
    IN IF w1.sr.attempt < w1.sr.max_retries
       THEN MakeRequest(w1)
       ELSE [w1 EXCEPT !.sr.pc = "failed"]

SCommit(w) ==
    /\ sr' = w.sr
    /\ out' = w.out

\* The client starts to iterate the generator: first attempt.
StreamStart ==
    /\ sr.pc = "start"
    /\ SCommit(MakeRequest(SWorld))
    /\ UNCHANGED nonStream

\* make_request() returns a response (lines 434-456), or raises.
ResponseArrives ==
    /\ sr.pc = "request"
    /\ \E status \in {200, 400, 0} :
          IF status = 200
          THEN SCommit(ProcessorStart(SWorld))
          ELSE SCommit(StreamEnds(SWorld, "failed"))
    /\ UNCHANGED nonStream

\* asyncio.wait_for on the first read times out (parse_kiro_stream 153-163).
FirstTokenTimeout ==
    /\ sr.pc = "first_wait"
    /\ SCommit(RetryAfterTimeout(SWorld))
    /\ UNCHANGED nonStream

\* The first bytes arrive and carry a content event.
FirstChunk ==
    /\ sr.pc = "first_wait"
    /\ SCommit([Emit(SWorld, ContentFrames(SWorld)) EXCEPT !.sr.pc = "streaming",
                                                          !.sr.chunks = 1])
    /\ UNCHANGED nonStream

\* Another chunk arrives.
NextChunk ==
    /\ sr.pc = "streaming"
    /\ sr.chunks < MaxChunks
    /\ SCommit([Emit(SWorld, ContentFrames(SWorld)) EXCEPT !.sr.chunks = @ + 1])
    /\ UNCHANGED nonStream

\* The upstream stream ends (also at once: StopAsyncIteration, line 164).
StreamCompletes ==
    /\ sr.pc \in {"first_wait", "streaming"}
    /\ SCommit(StreamEnds(Emit(SWorld, FinalFrames(SWorld)), "done"))
    /\ UNCHANGED nonStream

\* Reading the stream raises after the first token; stream_kiro_to_anthropic
\* yields an error event before re-raising (lines 531-542).
StreamRaises ==
    /\ sr.pc = "streaming"
    /\ SCommit(StreamEnds(IF sr.processor = "anthropic"
                          THEN Emit(SWorld, <<"error">>) ELSE SWorld, "failed"))
    /\ UNCHANGED nonStream

StreamInit ==
    /\ \E processor \in {"openai", "anthropic"}, max_retries \in 1..FIRST_TOKEN_MAX_RETRIES :
          sr = NewStream(processor, max_retries)
    /\ out = <<>>

StreamParked ==
    /\ sr = NewStream("openai", FIRST_TOKEN_MAX_RETRIES)
    /\ out = <<>>

StreamNext ==
    \/ StreamStart
    \/ ResponseArrives
    \/ FirstTokenTimeout
    \/ FirstChunk
    \/ NextChunk
    \/ StreamCompletes
    \/ StreamRaises

(***************************************************************************)
(* chat_completions, KiroHttpClient.request_with_retry                     *)
(***************************************************************************)

\* A request before its handler runs; stream is request_data.stream.
NewHandler(stream) ==
    [stream         |-> stream,
     pc             |-> "start",
     attempt        |-> 0,
     posts          |-> 0,         \* upstream POSTs sent
     owns_client    |-> FALSE,     \* KiroHttpClient._owns_client
     client_open    |-> FALSE,     \* the per-request httpx client
     open_responses |-> 0,         \* upstream responses obtained and not closed
     last_error     |-> FALSE,     \* last_error_info is set
     account_id     |-> 0,         \* account obtained from the pool; 0 = none
     reports        |-> 0,         \* report_success / report_error calls made
     result         |-> "none"]

\* request_with_retry(), line 201.
MaxRetries(stream) == IF stream THEN FIRST_TOKEN_MAX_RETRIES ELSE MAX_RETRIES

\* KiroHttpClient.close(), lines 147-167.  Closing the per-request client
\* closes the connections of the responses it still holds.
CloseClient(r) ==
    IF r.owns_client
    THEN [r EXCEPT !.client_open = FALSE, !.open_responses = 0]
    ELSE r

\* Every way out of chat_completions calls http_client.close():
\* routes_openai.py lines 352, 426, 448, 456 and 463.
Finish(r, result) ==
    [CloseClient(r) EXCEPT !.pc = "done", !.result = result]

\* request_with_retry(), lines 296-318: the loop is over, HTTPException.
RetriesExhausted(r) ==
    Finish(r, IF r.last_error THEN "network_error" ELSE "retries_exhausted")

\* `continue`: the next turn of `for attempt in range(max_retries)`.
NextAttempt(r) ==
    IF r.attempt + 1 < MaxRetries(TRUE)
    THEN [r EXCEPT !.attempt = @ + 1, !.posts = @ + 1]
    ELSE RetriesExhausted(r)

\* request_with_retry(), lines 221-252, and the route's handling of a
\* response that is not 200, lines 345-377: response.aread() reads the
\* body to its end, which closes the response.
UpstreamStatus(r, status) ==
    LET r1 == [r EXCEPT !.open_responses = @ + 1]
    IN IF status = 200
       THEN [r1 EXCEPT !.pc = "consume"]
       ELSE IF status \in {403, 429, 500}
       THEN NextAttempt(r1)
       ELSE Finish(r, "upstream_error")

\* The handler runs up to its first upstream POST (lines 183-343).
HandleRequest(h) ==
    /\ rq[h].pc = "start"
    /\ \E account_id \in Acc \cup {0} :           \* get_account(), lines 209-216
          rq' = [rq EXCEPT ![h] =
                    IF account_id = 0
                    THEN [@ EXCEPT !.pc = "done", !.result = "no_account"]
                    ELSE [@ EXCEPT !.pc = "send",
                                   !.account_id = account_id,
                                   !.owns_client = rq[h].stream,
                                   !.client_open = rq[h].stream,
                                   !.posts = 1]]
    /\ UNCHANGED nonReq

\* The upstream answers the POST.
UpstreamAnswers(h) ==
    /\ rq[h].pc = "send"
    /\ \E status \in {200, 400, 403, 429, 500} :
          rq' = [rq EXCEPT ![h] = UpstreamStatus(rq[h], status)]
    /\ UNCHANGED nonReq

\* The POST fails with a timeout or a request error (lines 254-294).
NetworkError(h) ==
    /\ rq[h].pc = "send"
    /\ \E retryable \in BOOLEAN :
          LET r1 == [rq[h] EXCEPT !.last_error = TRUE]
          IN rq' = [rq EXCEPT ![h] = IF retryable /\ r1.attempt < MaxRetries(TRUE) - 1
                                     THEN NextAttempt(r1)
                                     ELSE RetriesExhausted(r1)]
    /\ UNCHANGED nonReq

\* The 200 response is consumed by stream_wrapper (lines 385-431) or by
\* collect_stream_response (lines 435-448): to its end, up to an exception,
\* or up to the client's disconnect.  The processor's `finally` closes it.
ConsumeResponse(h) ==
    /\ rq[h].pc = "consume"
    /\ \E result \in {"ok", "internal_error"} \cup
                     (IF rq[h].stream THEN {"client_disconnected"} ELSE {}) :
          rq' = [rq EXCEPT ![h] = Finish([rq[h] EXCEPT !.open_responses = @ - 1], result)]
    /\ UNCHANGED nonReq

ReqInit == \E streams \in [Handler -> BOOLEAN] : rq = [h \in Handler |-> NewHandler(streams[h])]

ReqParked == rq = [h \in Handler |-> NewHandler(FALSE)]

ReqNext ==
    \/ \E h \in Handler : HandleRequest(h)
    \/ \E h \in Handler : UpstreamAnswers(h)
    \/ \E h \in Handler : NetworkError(h)
    \/ \E h \in Handler : ConsumeResponse(h)

(***************************************************************************)
(* KiroHttpClient.request_with_retry, with either value of `stream`        *)
(***************************************************************************)

\* Local state of one request_with_retry(method, url, json_data, stream).
NewCall(stream) ==
    [stream          |-> stream,
     pc              |-> "idle",
     attempt         |-> 0,         \* the loop variable
     last_error_info |-> 0,         \* its suggested_http_code; 0 = None
     posts           |-> 0,         \* upstream requests sent
     token           |-> 0,         \* token of the latest upstream request
     forbidden       |-> 0,         \* 403 answers received
     refreshes       |-> 0,         \* force_refresh() calls made
     refreshed       |-> FALSE,     \* the latest force_refresh() returned
     reissue         |-> "none",    \* after the latest 403 that left attempts:
                                    \* "owed", then "fresh" or "stale" by the
                                    \* token of the request that followed
     throttled       |-> FALSE,     \* a 429 answer was received
     retried_429     |-> FALSE,     \* and a request followed it
     result          |-> "none",    \* "response", "HTTPException", "error"
     status_code     |-> 0,         \* of the response or of the HTTPException
     classified      |-> FALSE]     \* detail is the classified user message

\* classify_network_error(), network_errors.py lines 82-176, 179-296 and
\* 299-354: the kinds of failure and what the classification says of them.
NetworkErrorKinds == {"timeout", "connect", "ssl"}

classify_network_error(kind) ==
    CASE kind = "timeout" -> [suggested_http_code |-> 504, is_retryable |-> TRUE]
      [] kind = "connect" -> [suggested_http_code |-> 502, is_retryable |-> TRUE]
      [] kind = "ssl"     -> [suggested_http_code |-> 502, is_retryable |-> FALSE]

\* `return response`, lines 225-226 and 249.
ReturnResponse(c, status) ==
    [c EXCEPT !.pc = "done", !.result = "response", !.status_code = status]

\* An exception that request_with_retry does not catch leaves it.
Propagate(c) ==
    [c EXCEPT !.pc = "done", !.result = "error"]

\* Lines 289-318, with the fallback taken for every failure.
RaiseAfterLoop_AlwaysFallback(c) ==
    [c EXCEPT !.pc = "done", !.result = "HTTPException",
              !.status_code = IF c.stream THEN 504 ELSE 502,
              !.classified = FALSE]

\* Lines 289-318: the loop is over without a response.
RaiseAfterLoop(c) ==
    IF c.last_error_info # 0
    THEN [c EXCEPT !.pc = "done", !.result = "HTTPException",
                   !.status_code = c.last_error_info,
                   !.classified = TRUE]
    ELSE [c EXCEPT !.pc = "done", !.result = "HTTPException",
                   !.status_code = IF c.stream THEN 504 ELSE 502,
                   !.classified = FALSE]

\* The loop of line 208 without its bound.
Continue_Unbounded(c) ==
    [c EXCEPT !.attempt = @ + 1, !.pc = "attempt"]

\* `continue`, or the end of an except block: the next turn of
\* `for attempt in range(max_retries)` (line 208), if there is one.
Continue(c) ==
    IF c.attempt + 1 < MaxRetries(c.stream)
    THEN [c EXCEPT !.attempt = @ + 1, !.pc = "attempt"]
    ELSE RaiseAfterLoop(c)

\* Lines 251-287: a TimeoutException or RequestError raised inside `try`.
OnNetworkError(c, kind) ==
    LET error_info == classify_network_error(kind)
        c1 == [c EXCEPT !.last_error_info = error_info.suggested_http_code]
    IN IF error_info.is_retryable /\ c1.attempt < MaxRetries(c1.stream) - 1
       THEN Continue(c1)                       \* sleep, next turn
       ELSE IF ~error_info.is_retryable
       THEN RaiseAfterLoop(c1)                 \* break
       ELSE Continue(c1)                       \* the loop's last turn ends

\* Lines 228-232 where the 403 is retried without a refresh.
OnStatus_NoRefresh(c, status) ==
    IF status = 200 THEN ReturnResponse(c, status)
    ELSE IF status = 403
    THEN Continue([c EXCEPT !.forbidden = @ + 1,
                            !.reissue = IF c.attempt + 1 < MaxRetries(c.stream)
                                        THEN "owed" ELSE "none"])
    ELSE IF status = 429 THEN Continue([c EXCEPT !.throttled = TRUE])
    ELSE IF status >= 500 /\ status < 600 THEN Continue(c)
    ELSE ReturnResponse(c, status)

\* Lines 224-249: the status of the upstream's answer.
OnStatus(c, status) ==
    IF status = 200 THEN ReturnResponse(c, status)
    ELSE IF status = 403
    THEN [c EXCEPT !.forbidden = @ + 1,        \* force_refresh() is called
                   !.refreshes = @ + 1,
                   !.refreshed = FALSE,
                   !.reissue = IF c.attempt + 1 < MaxRetries(c.stream)
                               THEN "owed" ELSE "none",
                   !.pc = "refresh"]
    ELSE IF status = 429 THEN Continue([c EXCEPT !.throttled = TRUE])
    ELSE IF status >= 500 /\ status < 600 THEN Continue(c)
    ELSE ReturnResponse(c, status)

\* Lines 211-222: get_access_token() returned `token`; the request is sent.
SendRequest(c, token) ==
    [c EXCEPT !.pc = "send",
              !.posts = @ + 1,
              !.token = token,
              !.reissue = IF c.reissue = "owed"
                          THEN (IF token > c.token THEN "fresh" ELSE "stale")
                          ELSE @,
              !.retried_429 = c.throttled]

\* A task calls request_with_retry: lines 202-208.
RequestWithRetry(h) ==
    /\ hc.calls[h].pc = "idle"
    /\ hc' = [hc EXCEPT !.calls[h].pc = "attempt"]
    /\ UNCHANGED nonHttp

\* get_access_token() returns the manager's token and the request is sent.
AttemptSends(h) ==
    /\ hc.calls[h].pc = "attempt"
    /\ hc' = [hc EXCEPT !.calls[h] = SendRequest(@, hc.access_token)]
    /\ UNCHANGED nonHttp

\* get_access_token() raises: a timeout or request error of its refresh
\* request is caught as a network error of this attempt (lines 251-287),
\* anything else (HTTPStatusError, ValueError) propagates.
AttemptTokenFails(h) ==
    /\ hc.calls[h].pc = "attempt"
    /\ \E failure \in NetworkErrorKinds \cup {"other"} :
          hc' = [hc EXCEPT !.calls[h] = IF failure \in NetworkErrorKinds
                                        THEN OnNetworkError(@, failure)
                                        ELSE Propagate(@)]
    /\ UNCHANGED nonHttp

\* The upstream answers the request.
UpstreamResponds(h) ==
    /\ hc.calls[h].pc = "send"
    /\ \E status \in {200, 400, 403, 429, 500} :
          hc' = [hc EXCEPT !.calls[h] = OnStatus(@, status)]
    /\ UNCHANGED nonHttp

\* The request fails with a timeout or a request error.
RequestFails(h) ==
    /\ hc.calls[h].pc = "send"
    /\ \E kind \in NetworkErrorKinds :
          hc' = [hc EXCEPT !.calls[h] = OnNetworkError(@, kind)]
    /\ UNCHANGED nonHttp

\* force_refresh() returns: the manager holds a new token (auth.py 871-882).
ForceRefreshReturns(h) ==
    /\ hc.calls[h].pc = "refresh"
    /\ hc' = [hc EXCEPT !.access_token = @ + 1,
                        !.calls[h] = Continue([@ EXCEPT !.refreshed = TRUE])]
    /\ UNCHANGED nonHttp

\* force_refresh() raises: as for get_access_token() above.
ForceRefreshFails(h) ==
    /\ hc.calls[h].pc = "refresh"
    /\ \E failure \in NetworkErrorKinds \cup {"other"} :
          hc' = [hc EXCEPT !.calls[h] = IF failure \in NetworkErrorKinds
                                        THEN OnNetworkError(@, failure)
                                        ELSE Propagate(@)]
    /\ UNCHANGED nonHttp

HttpInit ==
    \E streams \in [HCall -> BOOLEAN] :
        hc = [access_token |-> 1, calls |-> [h \in HCall |-> NewCall(streams[h])]]

HttpParked ==
    hc = [access_token |-> 1, calls |-> [h \in HCall |-> NewCall(FALSE)]]

HttpNext ==
    \/ \E h \in HCall : RequestWithRetry(h)
    \/ \E h \in HCall : AttemptSends(h)
    \/ \E h \in HCall : AttemptTokenFails(h)
    \/ \E h \in HCall : UpstreamResponds(h)
    \/ \E h \in HCall : RequestFails(h)
    \/ \E h \in HCall : ForceRefreshReturns(h)
    \/ \E h \in HCall : ForceRefreshFails(h)

(***************************************************************************)
(* stream_kiro_to_openai_internal, stream_kiro_to_anthropic and what       *)
(* drives them: the routes' stream_wrapper, or the stream_processor of a   *)
(* first-token retry wrapper                                               *)
(***************************************************************************)

\* One SSE frame.  index and block are those of an Anthropic content
\* block event; block also carries finish_reason of the OpenAI final chunk;
\* role: the delta of an OpenAI chunk has "role": "assistant".
Frame(type, index, block) ==
    [type |-> type, index |-> index, block |-> block, role |-> FALSE]

NoIndex == 0 - 1      \* Optional[int] that is None

\* The streamed response when the upstream has answered 200 and nothing has
\* been iterated yet.  api: which emitter; route: driven by the route's
\* stream_wrapper (otherwise iterated directly, as stream_processor does);
\* recovery: should_inject_recovery().
NewStreamed(api, route, recovery) ==
    [api            |-> api,
     route          |-> route,
     recovery       |-> recovery,
     pc             |-> "start",
     posts          |-> 1,         \* upstream POSTs this request got a 200 for
     timeouts       |-> 0,         \* responses that hit the first-token timeout
     status_code    |-> IF route THEN 200 ELSE 0,   \* of StreamingResponse
     frames         |-> <<>>,      \* frames delivered to the client
     response_open  |-> TRUE,
     client_open    |-> route,     \* the per-request KiroHttpClient
     error          |-> "none",
     frames_at_error |-> NoIndex,  \* frames delivered when the exception occurred
     events         |-> 0,         \* events read from parse_kiro_stream
     regular_seen   |-> FALSE,     \* a content event was among them
     \* locals of the emitter
     usage          |-> FALSE,     \* metering_data is not None
     context_usage  |-> FALSE,     \* context_usage_percentage is not None
     full_content   |-> FALSE,     \* len(full_content) > 0
     full_thinking  |-> FALSE,     \* len(full_thinking_content) > 0
     tool_calls     |-> <<>>,      \* tool_calls_from_stream / tool_blocks
     truncated_tools |-> {},       \* ids of the calls tagged _truncation_detected
     first_chunk            |-> TRUE,
     current_block_index    |-> 0,
     thinking_block_started |-> FALSE,
     thinking_block_index   |-> NoIndex,
     text_block_started     |-> FALSE,
     text_block_index       |-> NoIndex,
     content_was_truncated  |-> FALSE,
     \* what the emitter has written to the truncation store
     saved          |-> {},        \* save_tool_truncation(tool_call_id)
     saved_content  |-> FALSE]     \* save_content_truncation(full_content)

Yield(s, frame) == [s EXCEPT !.frames = Append(@, frame)]

\* "Close thinking block if it was open", streaming_anthropic.py 184-190.
CloseThinkingBlock_SameIndex(s) ==
    IF s.thinking_block_started /\ s.thinking_block_index # NoIndex
    THEN [Yield(s, Frame("content_block_stop", s.thinking_block_index, "thinking"))
            EXCEPT !.thinking_block_started = FALSE]
    ELSE s

CloseThinkingBlock(s) ==
    IF s.thinking_block_started /\ s.thinking_block_index # NoIndex
    THEN [Yield(s, Frame("content_block_stop", s.thinking_block_index, "thinking"))
            EXCEPT !.thinking_block_started = FALSE,
                   !.current_block_index = @ + 1]
    ELSE s

\* "Close text block if open", streaming_anthropic.py 290-297.
CloseTextBlock(s) ==
    IF s.text_block_started /\ s.text_block_index # NoIndex
    THEN [Yield(s, Frame("content_block_stop", s.text_block_index, "text"))
            EXCEPT !.text_block_started = FALSE,
                   !.current_block_index = @ + 1]
    ELSE s

\* A tool_use block: start, one input_json_delta, stop (lines 299-343 and
\* 369-405).  tc = [id, truncated].
ToolUseBlock(s, tc) ==
    LET s0 == CloseTextBlock(CloseThinkingBlock(s))
        i  == s0.current_block_index
        s1 == Yield(Yield(Yield(s0, Frame("content_block_start", i, "tool_use")),
                                    Frame("content_block_delta", i, "tool_use")),
                                    Frame("content_block_stop", i, "tool_use"))
    IN [s1 EXCEPT !.tool_calls = Append(@, tc),
                  !.truncated_tools = IF tc.truncated THEN @ \cup {tc.id} ELSE @,
                  !.current_block_index = @ + 1]

\* One event of parse_kiro_stream in stream_kiro_to_anthropic, lines 178-357.
\* A usage event matches no branch.
AnthropicEvent(s, e) ==
    IF e \in {"content", "content_empty"}
    THEN LET s0 == CloseThinkingBlock([s EXCEPT !.full_content = @ \/ e = "content"])
             s1 == IF ~s0.text_block_started
                   THEN [Yield(s0, Frame("content_block_start", s0.current_block_index, "text"))
                           EXCEPT !.text_block_index = s0.current_block_index,
                                  !.text_block_started = TRUE]
                   ELSE s0
         IN IF e = "content"
            THEN Yield(s1, Frame("content_block_delta", s1.text_block_index, "text"))
            ELSE s1
    ELSE IF e = "thinking"
    THEN LET s0 == [s EXCEPT !.full_thinking = TRUE]
             s1 == IF ~s0.thinking_block_started
                   THEN [Yield(s0, Frame("content_block_start", s0.current_block_index, "thinking"))
                           EXCEPT !.thinking_block_index = s0.current_block_index,
                                  !.thinking_block_started = TRUE]
                   ELSE s0
         IN Yield(s1, Frame("content_block_delta", s1.thinking_block_index, "thinking"))
    ELSE IF e = "context_usage"
    THEN [s EXCEPT !.context_usage = TRUE]
    ELSE s

\* One event in stream_kiro_to_openai_internal, lines 137-199.
OpenAIEvent(s, e) ==
    IF e = "content"
    THEN Yield([s EXCEPT !.full_content = TRUE, !.first_chunk = FALSE],
               [Frame("chunk", NoIndex, "content") EXCEPT !.role = s.first_chunk])
    ELSE IF e = "thinking"
    THEN Yield([s EXCEPT !.full_thinking = TRUE, !.first_chunk = FALSE],
               [Frame("chunk", NoIndex, "reasoning_content") EXCEPT !.role = s.first_chunk])
    ELSE IF e = "usage"
    THEN [s EXCEPT !.usage = TRUE]
    ELSE IF e = "context_usage"
    THEN [s EXCEPT !.context_usage = TRUE]
    ELSE s

RECURSIVE ToolUseEvents(_, _)
\* The tool_use events parse_kiro_stream yields last (streaming_core.py
\* 210-216), each handled by the emitter.
ToolUseEvents(s, tcs) ==
    IF tcs = <<>>
    THEN s
    ELSE ToolUseEvents(IF s.api = "anthropic"
                       THEN ToolUseBlock(s, Head(tcs))
                       ELSE [s EXCEPT !.tool_calls = Append(@, Head(tcs)),
                                      !.truncated_tools =
                                          IF Head(tcs).truncated THEN @ \cup {Head(tcs).id} ELSE @],
                       Tail(tcs))

\* stream_kiro_to_anthropic after its event loop, up to the yield of
\* message_stop (lines 359-471).  bracket: parse_bracket_tool_calls found
\* a call in full_content.
AnthropicAfterEvents(s, bracket) ==
    LET s0 == IF bracket THEN ToolUseBlock(s, [id |-> 0, truncated |-> FALSE]) ELSE s
        s1 == IF s0.thinking_block_started /\ s0.thinking_block_index # NoIndex
              THEN [Yield(s0, Frame("content_block_stop", s0.thinking_block_index, "thinking"))
                      EXCEPT !.current_block_index = @ + 1]
              ELSE s0
        s2 == IF s1.text_block_started /\ s1.text_block_index # NoIndex
              THEN Yield(s1, Frame("content_block_stop", s1.text_block_index, "text"))
              ELSE s1
        stream_completed_normally == s2.context_usage
        s3 == [s2 EXCEPT !.content_was_truncated =
                            /\ ~stream_completed_normally
                            /\ s2.full_content
                            /\ s2.tool_calls = <<>>]
        stop_reason == IF s3.tool_calls # <<>> THEN "tool_use" ELSE "end_turn"
    IN [Yield(Yield(s3, Frame("message_delta", NoIndex, stop_reason)),
                        Frame("message_stop", NoIndex, "none"))
          EXCEPT !.pc = "final"]

\* stream_kiro_to_openai_internal after its event loop, up to the yield of
\* the final chunk (lines 201-346).
OpenAIAfterEvents_AlwaysStop(s, bracket) ==
    LET s0 == IF bracket
              THEN [s EXCEPT !.tool_calls = Append(@, [id |-> 0, truncated |-> FALSE])]
              ELSE s
        s2 == IF s0.tool_calls # <<>>
              THEN Yield(s0, Frame("tool_calls", NoIndex, "none"))
              ELSE s0
        s3 == IF s2.recovery
              THEN [s2 EXCEPT !.saved = s2.truncated_tools]
              ELSE s2
    IN [Yield(s3, Frame("final_chunk", NoIndex, "stop")) EXCEPT !.pc = "final"]

OpenAIAfterEvents(s, bracket) ==
    LET has_response_content == s.full_content \/ s.full_thinking \/ s.tool_calls # <<>>
        stream_completed_normally == s.usage \/ s.context_usage \/ has_response_content
        s0 == IF bracket
              THEN [s EXCEPT !.tool_calls = Append(@, [id |-> 0, truncated |-> FALSE])]
              ELSE s
        all_tool_calls == s0.tool_calls
        s1 == [s0 EXCEPT !.content_was_truncated =
                            /\ ~stream_completed_normally
                            /\ s.full_content
                            /\ all_tool_calls = <<>>]
        finish_reason == IF all_tool_calls # <<>> THEN "tool_calls" ELSE "stop"
        s2 == IF all_tool_calls # <<>>
              THEN Yield(s1, Frame("tool_calls", NoIndex, "none"))
              ELSE s1
        s3 == IF s2.recovery
              THEN [s2 EXCEPT !.saved = s2.truncated_tools,
                              !.saved_content = s2.content_was_truncated]
              ELSE s2
    IN [Yield(s3, Frame("final_chunk", NoIndex, finish_reason)) EXCEPT !.pc = "final"]

\* The route's stream_wrapper is left: `finally: await http_client.close()`
\* (routes_openai.py 414-415, routes_anthropic.py 425-426).  Closing the
\* per-request client closes the connection of its response.
WrapperExit(s, error) ==
    [s EXCEPT !.pc = "done",
              !.error = error,
              !.client_open = FALSE,
              !.response_open = IF s.route THEN FALSE ELSE @]

\* The emitter runs to its end: the truncation records of
\* stream_kiro_to_anthropic (lines 473-493), the usage record and
\* data: [DONE] of stream_kiro_to_openai_internal (lines 349-368), and
\* `finally: await response.aclose()`.
EmitterReturn_NoRecords(s) ==
    LET s0 == IF s.api = "openai"
              THEN Yield(s, Frame("[DONE]", NoIndex, "none"))
              ELSE s
    IN WrapperExit([s0 EXCEPT !.response_open = FALSE], "none")

EmitterReturn(s) ==
    LET s0 == IF s.api = "openai"
              THEN Yield(s, Frame("[DONE]", NoIndex, "none"))
              ELSE IF s.recovery
              THEN [s EXCEPT !.saved = s.truncated_tools,
                             !.saved_content = s.content_was_truncated]
              ELSE s
    IN WrapperExit([s0 EXCEPT !.response_open = FALSE], "none")

\* An exception leaves parse_kiro_stream.  The emitters re-raise it, except
\* that stream_kiro_to_anthropic first yields an error event unless it is
\* FirstTokenTimeoutError (lines 527-547; streaming_openai.py 370-396); the
\* route's stream_wrapper then yields data: [DONE] and re-raises
\* (routes_openai.py 405-413) or yields an error event (routes_anthropic.py
\* 417-424).
EmitterRaise_NoTerminalFrame(s, error) ==
    WrapperExit([s EXCEPT !.response_open = FALSE, !.frames_at_error = Len(s.frames)], error)

EmitterRaise(s, error) ==
    LET s0 == IF s.api = "anthropic" /\ error # "first_token_timeout"
              THEN Yield(s, Frame("error", NoIndex, "none"))
              ELSE s
        s1 == [s0 EXCEPT !.response_open = FALSE, !.frames_at_error = Len(s.frames)]
        s2 == IF ~s1.route THEN s1
              ELSE IF s1.api = "openai"
              THEN Yield(s1, Frame("[DONE]", NoIndex, "none"))
              ELSE Yield(s1, Frame("error", NoIndex, "none"))
    IN WrapperExit(s2, error)

EventKinds == {"thinking", "content", "content_empty", "usage", "context_usage"}

\* The client starts to iterate the body.  routes_anthropic.py 404-412
\* calls stream_kiro_to_anthropic with estimated_input_tokens=..., a keyword
\* the function (streaming_anthropic.py 101-109) does not accept: the call
\* raises TypeError inside stream_wrapper's try.  Otherwise the emitter
\* starts; stream_kiro_to_anthropic yields message_start (lines 160-175).
EmitterStarts ==
    /\ sw.pc = "start"
    /\ sw' = IF sw.route /\ sw.api = "anthropic"
             THEN WrapperExit(Yield(sw, Frame("error", NoIndex, "none")), "type_error")
             ELSE IF sw.api = "anthropic"
             THEN [Yield(sw, Frame("message_start", NoIndex, "none")) EXCEPT !.pc = "first_wait"]
             ELSE [sw EXCEPT !.pc = "first_wait"]
    /\ UNCHANGED nonEmit

\* asyncio.wait_for on the first read times out (streaming_core.py 153-163).
FirstReadTimesOut ==
    /\ sw.pc = "first_wait"
    /\ sw' = EmitterRaise([sw EXCEPT !.timeouts = @ + 1], "first_token_timeout")
    /\ UNCHANGED nonEmit

\* ThinkingParser.feed: an opening tag is looked for only in the first
\* characters of the content; what is inside goes to the thinking channel,
\* and after the closing tag, or once the prefix held no tag, everything is
\* regular content.  Thinking is never yielded after regular content.
ThinkingParserYields(s, e) == e = "thinking" => ~s.regular_seen

\* A chunk arrives and parse_kiro_stream yields an event from it.
EventArrives ==
    /\ sw.pc \in {"first_wait", "events"}
    /\ sw.events < MaxEvents
    /\ \E e \in EventKinds :
          /\ ThinkingParserYields(sw, e)
          /\ LET s0 == [sw EXCEPT !.pc = "events",
                                  !.events = @ + 1,
                                  !.regular_seen = @ \/ e \in {"content", "content_empty"}]
             IN sw' = IF sw.api = "anthropic" THEN AnthropicEvent(s0, e) ELSE OpenAIEvent(s0, e)
    /\ UNCHANGED nonEmit

\* The byte stream ends (at once for an empty response, line 164):
\* parse_kiro_stream yields the parser's tool calls and the emitter runs up
\* to its last-but-one suspension.
UpstreamEnds ==
    /\ sw.pc \in {"first_wait", "events"}
    /\ \E n \in 0..MaxTools, bracket \in BOOLEAN :
       \E truncated \in [1..n -> BOOLEAN] :
          /\ sw.pc = "first_wait" => n = 0
          /\ bracket => sw.full_content
          /\ LET s0 == ToolUseEvents(sw, [i \in 1..n |-> [id |-> i, truncated |-> truncated[i]]])
             IN sw' = IF sw.api = "anthropic"
                      THEN AnthropicAfterEvents(s0, bracket)
                      ELSE OpenAIAfterEvents(s0, bracket)
    /\ UNCHANGED nonEmit

\* The client takes the frame the emitter is suspended at and the emitter
\* runs to its end.
EmitterReturns ==
    /\ sw.pc = "final"
    /\ sw' = EmitterReturn(sw)
    /\ UNCHANGED nonEmit

\* Reading the response raises (a read error, a read timeout after the
\* first token).
ReadRaises ==
    /\ sw.pc \in {"first_wait", "events"}
    /\ sw' = EmitterRaise(sw, "exception")
    /\ UNCHANGED nonEmit

\* The client goes away while the generator is suspended at a yield:
\* GeneratorExit (streaming_openai.py 373-376, routes_openai.py 401-404).
ClientDisconnects ==
    /\ sw.pc \in {"first_wait", "events", "final"}
    /\ sw.frames # <<>>
    /\ sw' = WrapperExit([sw EXCEPT !.response_open = FALSE], "client_disconnected")
    /\ UNCHANGED nonEmit

EmitInit ==
    \E api \in {"openai", "anthropic"}, route \in BOOLEAN, recovery \in BOOLEAN :
        sw = NewStreamed(api, route, recovery)

EmitParked == sw = NewStreamed("openai", TRUE, FALSE)

EmitNext ==
    \/ EmitterStarts
    \/ FirstReadTimesOut
    \/ EventArrives
    \/ UpstreamEnds
    \/ EmitterReturns
    \/ ReadRaises
    \/ ClientDisconnects

(***************************************************************************)
(* AwsEventStreamParser: tool-call assembly and deduplicate_tool_calls     *)
(* (src/kiro/parsers.py)                                                   *)
(***************************************************************************)

\* The argument text of a tool call is a sequence of these pieces; OPEN is
\* the start of an object, `{"q":`.
OPEN == "{\"q\":"

CLOSE == "}"

DIGIT == "1"

\* data.get('input') of a tool_start event: absent, the start of an object,
\* or a whole object.
StartInputs == {<<>>, <<OPEN>>, <<OPEN, DIGIT, CLOSE>>}

\* data.get('input') of a tool_input event.
ToolInputs == {<<DIGIT>>, <<DIGIT, CLOSE>>}

\* data.get('toolUseId'); "" is an id that is present and empty.
ToolUseIds == {"", "t1", "t2"}

ToolNames == {"f", "g"}

CountOf(raw, piece) == Cardinality({i \in 1..Len(raw) : raw[i] = piece})

RECURSIVE Digits(_)
Digits(n) == IF n = 0 THEN "" ELSE DIGIT \o Digits(n - 1)

\* json.loads(args) succeeds: a number, or an object with one number.
JsonLoads(raw) ==
    /\ raw # <<>>
    /\ \/ \A i \in 1..Len(raw) : raw[i] = DIGIT
       \/ /\ Len(raw) >= 3
          /\ raw[1] = OPEN
          /\ raw[Len(raw)] = CLOSE
          /\ \A i \in 2..(Len(raw) - 1) : raw[i] = DIGIT

\* json.dumps(json.loads(args)): the canonical text, with a space after
\* the colon.
JsonDumps(raw) ==
    IF raw[1] = OPEN
    THEN "{\"q\": " \o Digits(CountOf(raw, DIGIT)) \o "}"
    ELSE Digits(CountOf(raw, DIGIT))

\* _diagnose_json_truncation(args)["is_truncated"] for a text that is not
\* empty and did not parse.  The text has no bracket, and its quotes are
\* those of OPEN, an even number.
DiagnoseJsonTruncation(raw) ==
    \/ raw[1] = OPEN /\ raw[Len(raw)] # CLOSE
    \/ CountOf(raw, OPEN) # CountOf(raw, CLOSE)

\* AwsEventStreamParser.__init__, with the history of the run: opened
\* counts the calls opened so far, finalized lists every finalization.
NewParser ==
    [pc         |-> "feeding",
     events     |-> 0,
     current_tool_call |-> <<>>,     \* <<>> is None
     tool_calls |-> <<>>,
     opened     |-> 0,
     finalized  |-> <<>>,
     result     |-> <<>>]            \* what get_tool_calls() returned

\* _finalize_tool_call (lines 397-455).  by: what caused it.
FinalizeToolCall(p, by) ==
    IF p.current_tool_call = <<>>
    THEN p
    ELSE LET c   == p.current_tool_call[1]
             ok  == JsonLoads(c.raw)
             tc  == [id        |-> c.id,
                     name      |-> c.name,
                     arguments |-> IF ok THEN JsonDumps(c.raw) ELSE "{}",
                     truncated |-> c.raw # <<>> /\ ~ok /\ DiagnoseJsonTruncation(c.raw),
                     serial    |-> c.serial]
         IN [p EXCEPT !.tool_calls = Append(@, tc),
                      !.current_tool_call = <<>>,
                      !.finalized = Append(@, [serial |-> c.serial, by |-> by])]

\* _process_tool_start_event (lines 352-377).
ProcessToolStartEvent_KeepsPrevious(p, id, name, input, stop) ==
    LET p1 == [p EXCEPT !.opened = @ + 1,
                        !.current_tool_call =
                            <<[id |-> id, name |-> name, raw |-> input,
                               serial |-> p.opened + 1]>>]
    IN IF stop THEN FinalizeToolCall(p1, "tool_stop") ELSE p1

ProcessToolStartEvent(p, id, name, input, stop) ==
    LET p0 == FinalizeToolCall(p, "tool_start")
        p1 == [p0 EXCEPT !.opened = @ + 1,
                         !.current_tool_call =
                             <<[id |-> id, name |-> name, raw |-> input,
                                serial |-> p0.opened + 1]>>]
    IN IF stop THEN FinalizeToolCall(p1, "tool_stop") ELSE p1

\* _process_tool_input_event (lines 379-389).
ProcessToolInputEvent(p, input) ==
    IF p.current_tool_call # <<>>
    THEN [p EXCEPT !.current_tool_call[1].raw = @ \o input]
    ELSE p

\* _process_tool_stop_event (lines 391-395).
ProcessToolStopEvent(p, stop) ==
    IF p.current_tool_call # <<>> /\ stop
    THEN FinalizeToolCall(p, "tool_stop")
    ELSE p

\* The first pass of deduplicate_tool_calls (lines 166-185): by_id, in the
\* order its keys were inserted.
RECURSIVE ById(_, _)
ById(by_id, tcs) ==
    IF tcs = <<>>
    THEN by_id
    ELSE LET tc == Head(tcs)
             at == {i \in 1..Len(by_id) : by_id[i].id = tc.id}
         IN IF tc.id = ""
            THEN ById(by_id, Tail(tcs))
            ELSE IF at = {}
            THEN ById(Append(by_id, tc), Tail(tcs))
            ELSE LET i == CHOOSE i \in at : TRUE
                     existing_args == by_id[i].arguments
                     current_args == tc.arguments
                 IN IF /\ current_args # "{}"
                       /\ \/ existing_args = "{}"
                          \/ Len(current_args) > Len(existing_args)
                    THEN ById([by_id EXCEPT ![i] = tc], Tail(tcs))
                    ELSE ById(by_id, Tail(tcs))

\* key = f"{func_name}-{func_args}" (line 200).
DedupKey(tc) == tc.name \o "-" \o tc.arguments

\* The second pass (lines 191-203).
RECURSIVE Unique(_, _, _)
Unique(unique, seen, tcs) ==
    IF tcs = <<>>
    THEN unique
    ELSE LET key == DedupKey(Head(tcs))
         IN IF key \notin seen
            THEN Unique(Append(unique, Head(tcs)), seen \cup {key}, Tail(tcs))
            ELSE Unique(unique, seen, Tail(tcs))

\* deduplicate_tool_calls (lines 151-208).
deduplicate_tool_calls_FirstById(tool_calls) ==
    LET by_id == ById(<<>>, tool_calls)
        first(id) == CHOOSE i \in 1..Len(tool_calls) :
                        /\ tool_calls[i].id = id
                        /\ \A j \in 1..(i - 1) : tool_calls[j].id # id
        result_with_id == [i \in 1..Len(by_id) |-> tool_calls[first(by_id[i].id)]]
        result_without_id == SelectSeq(tool_calls, LAMBDA tc : tc.id = "")
    IN Unique(<<>>, {}, result_with_id \o result_without_id)

deduplicate_tool_calls(tool_calls) ==
    LET result_with_id == ById(<<>>, tool_calls)
        result_without_id == SelectSeq(tool_calls, LAMBDA tc : tc.id = "")
    IN Unique(<<>>, {}, result_with_id \o result_without_id)

\* get_tool_calls (lines 543-555).
GetToolCalls(p) ==
    LET p0 == FinalizeToolCall(p, "end")
    IN [p0 EXCEPT !.result = deduplicate_tool_calls(p0.tool_calls),
                  !.pc = "ended"]

\* The ids and names the tool_start events of one stream are drawn from.
StreamToolUseIds == {"", "t1"}

StreamToolNames == {"f"}

\* An event {"name": ...} is parsed from the buffer.
ToolStart ==
    /\ ps.pc = "feeding"
    /\ ps.events < MaxParserEvents
    /\ \E id \in StreamToolUseIds, name \in StreamToolNames,
          input \in StartInputs, stop \in BOOLEAN :
          ps' = ProcessToolStartEvent([ps EXCEPT !.events = @ + 1], id, name, input, stop)
    /\ UNCHANGED nonParser

\* An event {"input": ...} is parsed from the buffer.
ToolInput ==
    /\ ps.pc = "feeding"
    /\ ps.events < MaxParserEvents
    /\ \E input \in ToolInputs :
          ps' = ProcessToolInputEvent([ps EXCEPT !.events = @ + 1], input)
    /\ UNCHANGED nonParser

\* An event {"stop": ...} is parsed from the buffer.
ToolStop ==
    /\ ps.pc = "feeding"
    /\ ps.events < MaxParserEvents
    /\ \E stop \in BOOLEAN :
          ps' = ProcessToolStopEvent([ps EXCEPT !.events = @ + 1], stop)
    /\ UNCHANGED nonParser

\* The stream has ended: parse_kiro_stream asks for the tool calls
\* (streaming_core.py 210).
ParserStreamEnds ==
    /\ ps.pc = "feeding"
    /\ ps' = GetToolCalls(ps)
    /\ UNCHANGED nonParser

ParserInit == ps = NewParser

ParserParked == ps = NewParser

ParserNext ==
    \/ ToolStart
    \/ ToolInput
    \/ ToolStop
    \/ ParserStreamEnds

\* What _finalize_tool_call can leave in function.arguments.
FinalizedArguments == {"{}", "1", "{\"q\": 1}", "{\"q\": 11}"}

\* A parser whose stream delivered the calls tcs, each ended by its
\* tool_stop, and has not ended yet.
Collected(tcs) ==
    [NewParser EXCEPT
        !.events = Len(tcs),
        !.opened = Len(tcs),
        !.tool_calls = [i \in 1..Len(tcs) |->
                           [id |-> tcs[i].id, name |-> tcs[i].name,
                            arguments |-> tcs[i].arguments,
                            truncated |-> FALSE, serial |-> i]],
        !.finalized = [i \in 1..Len(tcs) |-> [serial |-> i, by |-> "tool_stop"]]]

DedupInit ==
    \E n \in 0..MaxCalls :
       \E tcs \in [1..n -> [id : ToolUseIds, name : ToolNames, arguments : FinalizedArguments]] :
          ps = Collected(tcs)

(***************************************************************************)
(* Truncation recovery: the process-wide store (kiro/truncation_state.py)  *)
(* and the scan of incoming messages in chat_completions and messages      *)
(* (src/kiro/routes_openai.py, src/kiro/routes_anthropic.py)               *)
(***************************************************************************)

ToolCallIds == {"t1", "t2"}

ContentHashes == {"h1"}

\* One message (OpenAI) or content block (Anthropic) of a request: a tool
\* result with its tool_call_id, an assistant text with its hash, or
\* anything else.
IncomingItems ==
    [kind : {"tool"}, key : ToolCallIds] \cup
    [kind : {"assistant"}, key : ContentHashes] \cup
    [kind : {"other"}, key : {""}]

\* The empty store, no request seen.  noticed: ids for which a tool result
\* has been rewritten; last: the items of the latest request with what the
\* scan did to each; noticed_before: noticed when that request arrived.
NewTruncation ==
    [by_tool_call_id |-> {},
     by_content_hash |-> {},
     ever_saved      |-> {},
     noticed         |-> {},
     noticed_before  |-> {},
     last            |-> <<>>,
     requests        |-> 0,
     streams         |-> 0]

\* save_tool_truncation / save_content_truncation.
SaveTruncation(t, ids, hashes) ==
    [t EXCEPT !.by_tool_call_id = @ \cup ids,
              !.by_content_hash = @ \cup hashes,
              !.ever_saved = @ \cup ids]

\* get_tool_truncation(tool_call_id) / get_content_truncation(content):
\* whether an entry matches; on match the entry is deleted.
Stored(t, item) ==
    \/ item.kind = "tool" /\ item.key \in t.by_tool_call_id
    \/ item.kind = "assistant" /\ item.key \in t.by_content_hash

Consume(t, item) ==
    IF item.kind = "tool"
    THEN [t EXCEPT !.by_tool_call_id = @ \ {item.key}]
    ELSE IF item.kind = "assistant"
    THEN [t EXCEPT !.by_content_hash = @ \ {item.key}]
    ELSE t

\* One turn of `for msg in request_data.messages` in the routes: a tool
\* result whose lookup returns a record gets the synthetic notice before its content,
\* an assistant message whose lookup returns a record is followed by a
\* synthetic user message, everything else is appended as it is.
ScanMessage_NoticeAlways(t, item) ==
    LET truncation_info == Stored(t, item)
        t0 == IF truncation_info THEN Consume(t, item) ELSE t
        modified == item.kind = "tool" \/ truncation_info
    IN [t0 EXCEPT !.last = Append(@, [kind |-> item.kind, key |-> item.key,
                                      modified |-> modified]),
                  !.noticed = IF item.kind = "tool" /\ modified
                              THEN @ \cup {item.key} ELSE @]

ScanMessage(t, item) ==
    LET truncation_info == Stored(t, item)
        t0 == IF truncation_info THEN Consume(t, item) ELSE t
        modified == truncation_info
    IN [t0 EXCEPT !.last = Append(@, [kind |-> item.kind, key |-> item.key,
                                      modified |-> modified]),
                  !.noticed = IF item.kind = "tool" /\ modified
                              THEN @ \cup {item.key} ELSE @]

RECURSIVE ScanMessages(_, _)
ScanMessages(t, items) ==
    IF items = <<>>
    THEN t
    ELSE ScanMessages(ScanMessage(t, Head(items)), Tail(items))

\* A request arrives at POST /v1/chat/completions or POST /v1/messages and
\* its messages are scanned; the loop has no await.
RequestScanned ==
    /\ tr.requests < MaxIngress
    /\ \E n \in 1..MaxItems :
       \E items \in [1..n -> IncomingItems] :
          tr' = ScanMessages([tr EXCEPT !.requests = @ + 1,
                                        !.last = <<>>,
                                        !.noticed_before = tr.noticed],
                             items)
    /\ UNCHANGED nonTrunc

\* A stream completes and its emitter writes the records of its truncated
\* tool calls and of its truncated content.  The ids of the tool calls of
\* a stream are new: the upstream's toolUseId, or generate_tool_call_id().
StreamSavesTruncation ==
    /\ tr.streams < MaxSavingStreams
    /\ \E ids \in SUBSET (ToolCallIds \ tr.ever_saved), hashes \in SUBSET ContentHashes :
          /\ ids \cup hashes # {}
          /\ tr' = SaveTruncation([tr EXCEPT !.streams = @ + 1], ids, hashes)
    /\ UNCHANGED nonTrunc

TruncInit == tr = NewTruncation

TruncParked == tr = NewTruncation

TruncNext ==
    \/ RequestScanned
    \/ StreamSavesTruncation

(***************************************************************************)
(* Token accounting: calculate_tokens_from_context_usage                   *)
(* (src/kiro/streaming_core.py) and its caller in the OpenAI emitter       *)
(***************************************************************************)

\* A percentage is held in millionths of a percent, so 1.234567 % is
\* 1234567; products and quotients of the float arithmetic are exact here.
PercentScale == 1000000

NoPercent == 0 - 1     \* context_usage_percentage is None

\* The percentages explored: none, and the multiples of 1.234567 %.
Percentages == {NoPercent} \cup {k * PercentStep : k \in 0..MaxPercentSteps}

\* model_cache.get_max_input_tokens(model): the default, or the window of a
\* long-context model.
MaxInputTokens == {DEFAULT_MAX_INPUT_TOKENS, 5 * DEFAULT_MAX_INPUT_TOKENS}

CompletionTokens == {0, 1000, 150000}

\* count_message_tokens + count_tools_tokens of the request; 0 when
\* request_messages is empty.
RequestTokens == {0, 500}

RECURSIVE GCD(_, _)
GCD(a, b) == IF b = 0 THEN a ELSE GCD(b, a % b)

\* (p / 100) * max_input_tokens as a fraction num / den in lowest terms of
\* the window.
ScaledNum(p, max_input_tokens) ==
    p * (max_input_tokens \div GCD(max_input_tokens, 100 * PercentScale))

ScaledDen(max_input_tokens) ==
    (100 * PercentScale) \div GCD(max_input_tokens, 100 * PercentScale)

\* int(x) of a float that is not negative.
IntOf(num, den) == num \div den

\* round(x): to the nearest integer, a half to the even one.
RoundOf(num, den) ==
    LET q == num \div den
        r == num % den
    IN IF 2 * r < den THEN q
       ELSE IF 2 * r > den THEN q + 1
       ELSE IF q % 2 = 0 THEN q ELSE q + 1

Max(a, b) == IF a >= b THEN a ELSE b

\* calculate_tokens_from_context_usage (lines 339-372).
calculate_tokens_from_context_usage_Rounds(p, completion_tokens, max_input_tokens) ==
    IF p # NoPercent /\ p > 0
    THEN LET total_tokens == RoundOf(ScaledNum(p, max_input_tokens), ScaledDen(max_input_tokens))
         IN [prompt_tokens |-> Max(0, total_tokens - completion_tokens),
             total_tokens  |-> total_tokens,
             prompt_source |-> "subtraction",
             total_source  |-> "API Kiro"]
    ELSE [prompt_tokens |-> 0,
          total_tokens  |-> completion_tokens,
          prompt_source |-> "unknown",
          total_source  |-> "tiktoken"]

calculate_tokens_from_context_usage(p, completion_tokens, max_input_tokens) ==
    IF p # NoPercent /\ p > 0
    THEN LET total_tokens == IntOf(ScaledNum(p, max_input_tokens), ScaledDen(max_input_tokens))
         IN [prompt_tokens |-> Max(0, total_tokens - completion_tokens),
             total_tokens  |-> total_tokens,
             prompt_source |-> "subtraction",
             total_source  |-> "API Kiro"]
    ELSE [prompt_tokens |-> 0,
          total_tokens  |-> completion_tokens,
          prompt_source |-> "unknown",
          total_source  |-> "tiktoken"]

\* The usage of the final chunk (streaming_openai.py 233-335): the
\* calculation, and the tiktoken fallback when it had no percentage.
FinalUsage(t) ==
    LET u == calculate_tokens_from_context_usage(t.context_usage_percentage,
                                                 t.completion_tokens, t.max_input_tokens)
    IN IF u.prompt_source = "unknown" /\ t.request_tokens > 0
       THEN [prompt_tokens |-> t.request_tokens,
             total_tokens  |-> t.request_tokens + t.completion_tokens,
             prompt_source |-> "tiktoken+correction",
             total_source  |-> "tiktoken+correction"]
       ELSE u

\* The stream has ended and the emitter builds its final chunk.
UsageEmitted ==
    /\ tk.pc = "ended"
    /\ tk' = [tk EXCEPT !.pc = "emitted", !.usage = FinalUsage(tk)]
    /\ UNCHANGED nonTokens

NoUsage == [prompt_tokens |-> 0, total_tokens |-> 0,
            prompt_source |-> "none", total_source |-> "none"]

TokensInit ==
    \E p \in Percentages, c \in CompletionTokens, m \in MaxInputTokens, r \in RequestTokens :
        tk = [pc |-> "ended",
              context_usage_percentage |-> p,
              completion_tokens |-> c,
              max_input_tokens |-> m,
              request_tokens |-> r,
              usage |-> NoUsage]

TokensParked ==
    tk = [pc |-> "ended",
          context_usage_percentage |-> NoPercent,
          completion_tokens |-> 0,
          max_input_tokens |-> DEFAULT_MAX_INPUT_TOKENS,
          request_tokens |-> 0,
          usage |-> NoUsage]

TokensNext == UsageEmitted

(***************************************************************************)
(* Usage limits of an API key: APIKeyManager.check_usage_limits            *)
(* (src/kiro/api_key_manager.py) as called by verify_api_key               *)
(* (src/kiro/routes_openai.py)                                             *)
(***************************************************************************)

NoLimit == 0       \* usage_limit_tokens / usage_limit_requests is NULL or 0

RECURSIVE SumTokens(_)
SumTokens(rows) == IF rows = <<>> THEN 0 ELSE Head(rows) + SumTokens(Tail(rows))

\* get_usage_stats (lines 183-209): the usage rows of the key, counted and
\* summed.
get_usage_stats(rows) ==
    [total_requests |-> Len(rows), total_tokens |-> SumTokens(rows)]

\* check_usage_limits (lines 249-283).  key: the api_keys row, <<>> when
\* the SELECT finds none.
check_usage_limits_Above(key, rows) ==
    IF key = <<>>
    THEN "API key not found"
    ELSE IF key[1].usage_limit_tokens = NoLimit /\ key[1].usage_limit_requests = NoLimit
    THEN "within limits"
    ELSE LET stats == get_usage_stats(rows)
         IN IF /\ key[1].usage_limit_tokens # NoLimit
               /\ stats.total_tokens > key[1].usage_limit_tokens
            THEN "Token limit exceeded"
            ELSE IF /\ key[1].usage_limit_requests # NoLimit
                    /\ stats.total_requests > key[1].usage_limit_requests
            THEN "Request limit exceeded"
            ELSE "within limits"

check_usage_limits(key, rows) ==
    IF key = <<>>
    THEN "API key not found"
    ELSE IF key[1].usage_limit_tokens = NoLimit /\ key[1].usage_limit_requests = NoLimit
    THEN "within limits"
    ELSE LET stats == get_usage_stats(rows)
         IN IF /\ key[1].usage_limit_tokens # NoLimit
               /\ stats.total_tokens >= key[1].usage_limit_tokens
            THEN "Token limit exceeded"
            ELSE IF /\ key[1].usage_limit_requests # NoLimit
                    /\ stats.total_requests >= key[1].usage_limit_requests
            THEN "Request limit exceeded"
            ELSE "within limits"

\* verify_api_key after validate_key has accepted the key (routes_openai.py
\* 97-113): 429 unless the key is within its limits.
VerifyApiKey ==
    /\ lim.pc = "validated"
    /\ LET limit_error == check_usage_limits(lim.key, lim.rows)
       IN lim' = [lim EXCEPT !.pc = "done",
                             !.limit_error = limit_error,
                             !.status_code = IF limit_error = "within limits" THEN 200 ELSE 429]
    /\ UNCHANGED nonLimits

\* A key that validate_key has accepted, with its limits and the usage rows
\* recorded for it; the key may have been deleted since.
LimitsInit ==
    \E n \in 0..MaxUsageRows, lt \in 0..MaxLimit, lr \in 0..MaxLimit, deleted \in BOOLEAN :
    \E rows \in [1..n -> 0..MaxRowTokens] :
        lim = [pc |-> "validated",
               key |-> IF deleted THEN <<>>
                       ELSE <<[usage_limit_tokens |-> lt, usage_limit_requests |-> lr]>>,
               limits |-> [tokens |-> lt, requests |-> lr],
               rows |-> rows,
               limit_error |-> "none",
               status_code |-> 0]

LimitsParked ==
    lim = [pc |-> "validated",
           key |-> <<[usage_limit_tokens |-> NoLimit, usage_limit_requests |-> NoLimit]>>,
           limits |-> [tokens |-> NoLimit, requests |-> NoLimit],
           rows |-> <<>>,
           limit_error |-> "none",
           status_code |-> 0]

LimitsNext == VerifyApiKey

(***************************************************************************)
(* Model names: normalize_model_name and ModelResolver.resolve             *)
(* (src/kiro/model_resolver.py)                                            *)
(***************************************************************************)

\* A model name is the sequence of its parts between dashes, and whether it
\* has an upper-case letter: claude-sonnet-4-4-20250219 is
\* <<"claude", "sonnet", "4", "4", "20250219">>.
Families == {"sonnet"}

Minors == {"4"}                 \* \d{1,2}

Dates == {"20250219"}           \* \d{8}

Ints == Minors \cup Dates       \* \d+

Dot(major, minor) == major \o "." \o minor

Dots == {Dot(a, b) : a, b \in Ints}      \* \d+\.\d+

NameParts == {"claude", "latest", "1m", Dot("4", "4")}
                \cup Families \cup Minors \cup Dates

\* (?:-(?:\d{8}|latest|\d+))?$ : nothing, or one such part.
OptionalSuffix(parts) ==
    \/ parts = <<>>
    \/ Len(parts) = 1 /\ parts[1] \in Ints \cup {"latest"}

Lower(parts) == [tokens |-> parts, upper |-> FALSE]

\* normalize_model_name (lines 63-163).
normalize_model_name(name) ==
    LET t == name.tokens
        n == Len(t)
    IN IF n = 0 THEN name
       \* standard_pattern
       ELSE IF /\ n >= 4 /\ t[1] = "claude" /\ t[2] \in Families
               /\ t[3] \in Ints /\ t[4] \in Minors
               /\ \/ OptionalSuffix(SubSeq(t, 5, n))
                  \/ n >= 5 /\ t[5] = "1m" /\ OptionalSuffix(SubSeq(t, 6, n))
       THEN Lower(<<t[1], t[2], Dot(t[3], t[4])>>
                    \o (IF n >= 5 /\ t[5] = "1m" THEN <<"1m">> ELSE <<>>))
       \* no_minor_pattern
       ELSE IF /\ n \in {3, 4} /\ t[1] = "claude" /\ t[2] \in Families /\ t[3] \in Ints
               /\ n = 4 => t[4] \in Dates
       THEN Lower(SubSeq(t, 1, 3))
       \* legacy_pattern
       ELSE IF /\ n >= 4 /\ t[1] = "claude" /\ t[2] \in Ints /\ t[3] \in Ints
               /\ t[4] \in Families
               /\ OptionalSuffix(SubSeq(t, 5, n))
       THEN Lower(<<t[1], Dot(t[2], t[3]), t[4]>>)
       \* dot_with_date_pattern
       ELSE IF /\ n >= 3 /\ t[1] = "claude" /\ t[n] \in Dates
               /\ \E a, b \in 0..1 :
                     /\ n = 3 + a + b
                     /\ a = 1 => t[2] \in Dots
                     /\ t[2 + a] \in Families
                     /\ b = 1 => t[3 + a] \in Dots
       THEN Lower(SubSeq(t, 1, n - 1))
       \* inverted_with_suffix_pattern
       ELSE IF /\ n >= 4 /\ t[1] = "claude" /\ t[2] \in Dots /\ t[3] \in Families
       THEN Lower(<<"claude", t[3], t[2]>>)
       ELSE name

\* MODEL_ALIASES of config.py: {"auto-kiro": "auto"}.
AliasNames == {[tokens |-> <<"auto", "kiro">>, upper |-> FALSE]}

AliasOf(name) == IF name \in AliasNames THEN Lower(<<"auto">>) ELSE name

\* HIDDEN_MODELS of config.py: claude-3.7-sonnet; here the legacy name the
\* parts can spell.
HiddenModels == {Lower(<<"claude", Dot("4", "4"), "sonnet">>)}

\* The models ListAvailableModels returned.
CachedModels == {Lower(<<"auto">>), Lower(<<"claude", "sonnet", Dot("4", "4")>>)}

\* ModelResolver.resolve (lines 274-339).
resolve(external_model) ==
    LET resolved_model == AliasOf(external_model)
        normalized == normalize_model_name(resolved_model)
    IN [original_request |-> external_model,
        normalized |-> normalized,
        source |-> IF normalized \in HiddenModels THEN "hidden"
                   ELSE IF normalized \in CachedModels THEN "cache"
                   ELSE "passthrough",
        is_verified |-> normalized \in HiddenModels \cup CachedModels]

\* A request's model name is resolved.
ModelResolved ==
    /\ mr.pc = "requested"
    /\ mr' = [mr EXCEPT !.pc = "resolved", !.first = <<resolve(mr.model)>>]
    /\ UNCHANGED nonResolver

\* The normalized name comes back as the model name of a request.
NormalizedResolved ==
    /\ mr.pc = "resolved"
    /\ mr' = [mr EXCEPT !.pc = "resolved_again",
                        !.second = <<resolve(mr.first[1].normalized)>>]
    /\ UNCHANGED nonResolver

ResolverInit ==
    \E n \in 1..MaxNameParts, upper \in BOOLEAN :
    \E parts \in [1..n -> NameParts] \cup {<<"auto">>, <<"auto", "kiro">>} :
        mr = [pc |-> "requested",
              model |-> [tokens |-> parts, upper |-> upper],
              first |-> <<>>,
              second |-> <<>>]

ResolverParked ==
    mr = [pc |-> "requested",
          model |-> [tokens |-> <<"auto">>, upper |-> FALSE],
          first |-> <<>>,
          second |-> <<>>]

ResolverNext ==
    \/ ModelResolved
    \/ NormalizedResolved

(***************************************************************************)
(* Requests of one account that meet a 403: request_with_retry             *)
(* (src/kiro/http_client.py) over KiroAuthManager.force_refresh and        *)
(* get_access_token (src/kiro/auth.py)                                     *)
(***************************************************************************)

\* Access tokens are numbered as issued; upstream accepts the tokens from
\* `valid_from` on.  forced: the rejected token behind each forced refresh.
NewRefreshCall == [pc |-> "idle", token |-> 0, attempt |-> 0]

NewSharedAuth(stale) ==
    [lock         |-> FreeLock,
     access_token |-> 1,
     valid_from   |-> IF stale THEN 2 ELSE 1,
     forced       |-> <<>>,
     call         |-> [h \in Refresher |-> NewRefreshCall]]

\* get_access_token(), lines 805-869, with a token that is not about to
\* expire: return it under the lock; then the request is sent (lines 206-221).
TokenRead(f, h) ==
    [f EXCEPT !.call[h].token = f.access_token,
              !.call[h].pc = "sent",
              !.lock = Unlock(@)]

\* One turn of `for attempt in range(max_retries)` (line 203) up to its
\* first suspension; after the last turn the call raises.
RetryTurn(f, h) ==
    IF f.call[h].attempt >= MAX_RETRIES
    THEN [f EXCEPT !.call[h].pc = "raised"]
    ELSE IF f.lock = FreeLock
    THEN TokenRead([f EXCEPT !.lock.locked_by = h], h)
    ELSE [f EXCEPT !.lock.waiters = Append(@, h), !.call[h].pc = "token_wait"]

\* force_refresh(), lines 871-882, up to the refresh request.
force_refresh(f, h) ==
    IF f.lock = FreeLock
    THEN [f EXCEPT !.lock.locked_by = h, !.call[h].pc = "refreshing"]
    ELSE [f EXCEPT !.lock.waiters = Append(@, h), !.call[h].pc = "refresh_wait"]

\* _refresh_token_request() is answered with a new token; force_refresh
\* returns and the loop continues (http_client.py lines 227-230).
RefreshReturns(f, h) ==
    RetryTurn([f EXCEPT !.access_token = @ + 1,
                        !.forced = Append(@, f.call[h].token),
                        !.lock = Unlock(@),
                        !.call[h].attempt = @ + 1], h)

\* A handler calls request_with_retry.
RefreshCallStarts(h) ==
    /\ fr.call[h].pc = "idle"
    /\ fr' = RetryTurn(fr, h)
    /\ UNCHANGED nonRefresh

\* Upstream answers: 200 for a token it accepts, 403 for a stale one.
UpstreamReplies(h) ==
    /\ fr.call[h].pc = "sent"
    /\ fr' = IF fr.call[h].token >= fr.valid_from
             THEN [fr EXCEPT !.call[h].pc = "returned"]
             ELSE force_refresh(fr, h)
    /\ UNCHANGED nonRefresh

\* A call queued for the manager's lock is handed the lock.
SharedLockGranted(h) ==
    /\ fr.call[h].pc \in {"token_wait", "refresh_wait"}
    /\ fr.lock.locked_by = h
    /\ fr' = IF fr.call[h].pc = "token_wait"
             THEN TokenRead(fr, h)
             ELSE [fr EXCEPT !.call[h].pc = "refreshing"]
    /\ UNCHANGED nonRefresh

\* The refresh request of a forced refresh is answered.
RefreshAnswered(h) ==
    /\ fr.call[h].pc = "refreshing"
    /\ fr' = RefreshReturns(fr, h)
    /\ UNCHANGED nonRefresh

\* Upstream stops accepting the token the manager holds (it expired or was
\* revoked upstream).
TokenRejectedUpstream ==
    /\ fr.valid_from <= fr.access_token
    /\ fr.valid_from <= MaxStale
    /\ fr' = [fr EXCEPT !.valid_from = fr.access_token + 1]
    /\ UNCHANGED nonRefresh

RefreshInit == \E stale \in BOOLEAN : fr = NewSharedAuth(stale)

RefreshParked == fr = NewSharedAuth(FALSE)

RefreshNext ==
    \/ \E h \in Refresher : RefreshCallStarts(h)
    \/ \E h \in Refresher : UpstreamReplies(h)
    \/ \E h \in Refresher : SharedLockGranted(h)
    \/ \E h \in Refresher : RefreshAnswered(h)
    \/ TokenRejectedUpstream

FunctionsParked == TokensParked /\ LimitsParked /\ ResolverParked /\ RefreshParked

\* The components a specification does not run stay as constructed.
StreamingParked == EmitParked /\ ParserParked /\ TruncParked /\ FunctionsParked

(***************************************************************************)
(* Specifications                                                          *)
(***************************************************************************)

Init == RLInit /\ AuthInit /\ PoolInit /\ UsageInit /\ StreamInit /\ ReqInit /\ HttpInit
          /\ EmitInit /\ ParserInit /\ TruncInit
          /\ TokensInit /\ LimitsInit /\ ResolverInit /\ RefreshInit

Next == RLNext \/ AuthNext \/ PoolNext \/ UsageNext \/ StreamNext \/ ReqNext \/ HttpNext
          \/ EmitNext \/ ParserNext \/ TruncNext \/ TokensNext \/ LimitsNext \/ ResolverNext \/ RefreshNext

\* The whole gateway.
Spec == Init /\ [][Next]_vars

\* The rate limiter under concurrent requests.
InitRL == RLInit /\ AuthParked /\ PoolParked /\ UsageParked /\ StreamParked /\ ReqParked /\ HttpParked /\ StreamingParked

SpecRL == InitRL /\ [][RLNext]_vars

\* The slot queue under cancellation, with fair resumption and release.
InitRLQueue == RLQueueInit /\ AuthParked /\ PoolParked /\ UsageParked /\ StreamParked /\ ReqParked /\ HttpParked /\ StreamingParked

SpecRLQueue == InitRLQueue /\ [][RLQueueNext]_vars /\ RLQueueFairness

\* The limiter's 429 backoff under a wall clock that can be set back.
SpecClock == InitRL /\ [][ClockNext]_vars

\* One auth manager under concurrent get_access_token calls.
InitAuth == RLParked /\ AuthInit /\ PoolParked /\ UsageParked /\ StreamParked /\ ReqParked /\ HttpParked /\ StreamingParked

SpecAuth == InitAuth /\ [][AuthNext]_vars

\* The account pool under concurrent selections and health reports.
InitPool == RLParked /\ AuthParked /\ PoolInit /\ UsageParked /\ StreamParked /\ ReqParked /\ HttpParked /\ StreamingParked

SpecPool == InitPool /\ [][PoolNext]_vars

\* The pool together with the admin routes and the managers it hands out.
SpecPoolAdmin == InitPool /\ [][PoolAdminNext]_vars

\* One first-token retry loop, with either stream processor.
InitStream == RLParked /\ AuthParked /\ PoolParked /\ UsageParked /\ StreamInit /\ ReqParked /\ HttpParked /\ StreamingParked

SpecStream == InitStream /\ [][StreamNext]_vars

\* Chat requests through chat_completions and request_with_retry.
InitReq == RLParked /\ AuthParked /\ PoolParked /\ UsageParked /\ StreamParked /\ ReqInit /\ HttpParked /\ StreamingParked

SpecReq == InitReq /\ [][ReqNext]_vars

\* request_with_retry calls sharing one auth manager.  The limiter is the
\* one the gateway runs with when the 429 backoff is configured.
InitHttp ==
    /\ rl = NewRateLimiter(0, 0, 2)
    /\ task = [t \in Req |-> NewTask]
    /\ now = T0
    /\ arrival = <<>>
    /\ admitted = <<>>
    /\ AuthParked /\ PoolParked /\ UsageParked /\ StreamParked /\ ReqParked
    /\ HttpInit /\ StreamingParked

SpecHttp == InitHttp /\ [][HttpNext]_vars

\* One streamed response through an emitter.
InitEmit ==
    /\ RLParked /\ AuthParked /\ PoolParked /\ UsageParked /\ StreamParked
    /\ ReqParked /\ HttpParked
    /\ EmitInit /\ ParserParked /\ TruncParked /\ FunctionsParked

SpecEmit == InitEmit /\ [][EmitNext]_vars

\* The event-stream parser assembling tool calls.
InitParser ==
    /\ RLParked /\ AuthParked /\ PoolParked /\ UsageParked /\ StreamParked /\ ReqParked /\ HttpParked
    /\ EmitParked /\ ParserInit /\ TruncParked /\ FunctionsParked

SpecParser == InitParser /\ [][ParserNext]_vars

\* get_tool_calls over every list of finalized calls.
InitDedup ==
    /\ RLParked /\ AuthParked /\ PoolParked /\ UsageParked /\ StreamParked /\ ReqParked /\ HttpParked
    /\ EmitParked /\ DedupInit /\ TruncParked /\ FunctionsParked

SpecDedup == InitDedup /\ [][ParserStreamEnds]_vars

\* The truncation store between the streams that write it and the requests
\* that consume it.
InitTrunc ==
    /\ RLParked /\ AuthParked /\ PoolParked /\ UsageParked /\ StreamParked /\ ReqParked /\ HttpParked
    /\ EmitParked /\ ParserParked /\ TruncInit /\ FunctionsParked

SpecTrunc == InitTrunc /\ [][TruncNext]_vars

\* The parked state of the components before the pure-function ones.
OthersParked ==
    /\ RLParked /\ AuthParked /\ PoolParked /\ UsageParked /\ StreamParked /\ ReqParked /\ HttpParked
    /\ EmitParked /\ ParserParked /\ TruncParked

\* Token accounting over percentages, windows and completion sizes.
InitTokens == OthersParked /\ TokensInit /\ LimitsParked /\ ResolverParked /\ RefreshParked

SpecTokens == InitTokens /\ [][TokensNext]_vars

\* The usage-limit check over limits and recorded usage.
InitLimits == OthersParked /\ TokensParked /\ LimitsInit /\ ResolverParked /\ RefreshParked

SpecLimits == InitLimits /\ [][LimitsNext]_vars

\* The model resolver over every name the parts can spell.
InitResolver == OthersParked /\ TokensParked /\ LimitsParked /\ ResolverInit /\ RefreshParked

SpecResolver == InitResolver /\ [][ResolverNext]_vars

\* Requests of one account whose token upstream may reject.
InitRefresh == OthersParked /\ TokensParked /\ LimitsParked /\ ResolverParked /\ RefreshInit

SpecRefresh == InitRefresh /\ [][RefreshNext]_vars

\* The usage tracker under concurrent record_request and flush calls.  The
\* event loop resumes every task that is ready to run.
InitUsage == RLParked /\ AuthParked /\ PoolParked /\ UsageInit /\ StreamParked /\ ReqParked /\ HttpParked /\ StreamingParked

SpecUsage ==
    /\ InitUsage
    /\ [][UsageNext]_vars
    /\ \A k \in UTask : /\ WF_vars(UsageLockGranted(k))
                        /\ WF_vars(InsertCommitted(k) \/ InsertFailed(k))

(***************************************************************************)
(* Claims about the rate limiter                                           *)
(***************************************************************************)

Returned(t) == task[t].pc \in {"active", "done"}

\* Tasks that hold a concurrency slot: admitted or past the slot step, and
\* queued tasks to which a releasing task has already passed its slot.
HoldsSlot(t) ==
    \/ task[t].pc \in {"backoff_sleep", "throttle_wait", "throttle_sleep", "active"}
    \/ task[t].pc = "slot_wait" /\ t \in rl.event_set

\* C1: with max_concurrent > 0 the active-slot count is never negative,
\* never exceeds max_concurrent, equals the number of requests that hold a
\* slot, and is back to 0 once every request has released.
C1_SlotCountBalanced ==
    rl.max_concurrent > 0 =>
        /\ rl.current_count >= 0
        /\ rl.current_count <= rl.max_concurrent
        /\ rl.current_count = Cardinality({t \in Req : HoldsSlot(t)})
        /\ (\A t \in Req : task[t].pc = "done") => rl.current_count = 0

\* C1 witness: every request has acquired and released, and at least one
\* of them had to queue for a slot that was passed on by a release.
C1_Witness ==
    /\ rl.max_concurrent > 0
    /\ rl.max_queue_length > 0
    /\ \A t \in Req : task[t].pc = "done"

\* C2: admission is strict FIFO: the order in which acquire() returns is
\* the order in which acquire() was called.
C2_StrictFifo ==
    admitted = SubSeq(arrival, 1, Len(admitted))

\* C9: an acquire() call started while a 429 pause was in force returns no
\* earlier than the latest pause_until set up to the moment it returns.
C9_ReturnsAfterLatestPause ==
    \A t \in Req :
        (Returned(t) /\ task[t].wait_start < task[t].start_pause)
            => task[t].ret_time >= task[t].ret_pause

(***************************************************************************)
(* Claims about the auth manager                                           *)
(***************************************************************************)

Finished(c) == caller[c].pc \in {"returned", "raised"}

\* C3 as stated: when concurrent get_access_token calls meet a missing or
\* expiring token, exactly one refresh request is sent upstream and every
\* caller returns the refreshed token.
C3_ExactlyOneRefresh ==
    (/\ up.concurrent
     /\ \A c \in Caller : Finished(c) /\ caller[c].stale_at_call)
        => /\ up.posts = 1
           /\ \A c \in Caller : /\ caller[c].pc = "returned"
                                /\ caller[c].result = up.first_token

\* C3 amended: once the first refresh request has succeeded and for as long
\* as the token it returned is outside the refresh threshold, no further
\* refresh request is sent, the manager holds that token, and every call
\* that finishes returns it.
C3_OneRefreshWhileFresh ==
    (/\ up.first_post = "ok"
     /\ clock + TOKEN_REFRESH_THRESHOLD < up.first_expires_at)
        => /\ up.posts = 1
           /\ am.access_token = up.first_token
           /\ \A c \in Caller :
                (Finished(c) /\ caller[c].ret_posts >= 1)
                    => /\ caller[c].pc = "returned"
                       /\ caller[c].result = up.first_token

\* C3 witness: all callers overlapped on a stale token, one of them queued
\* for the lock, one refresh was sent and all returned the refreshed token.
C3_Witness ==
    /\ up.concurrent
    /\ up.posts = 1
    /\ up.first_post = "ok"
    /\ \E c \in Caller : caller[c].waited
    /\ \A c \in Caller : /\ caller[c].pc = "returned"
                         /\ caller[c].stale_at_call
                         /\ caller[c].result = up.first_token

C20_DegradesOnAnyFailure ==
    \A c \in Caller :
        (caller[c].failure # "none" /\ Finished(c))
            => IF caller[c].usable
               THEN caller[c].pc = "returned"
               ELSE caller[c].pc = "raised"

\* C20 amended: get_access_token returns the held, unexpired token only when
\* the refresh failed with HTTP 400 and the manager reads an external
\* (SQLite) store; that same failure with an expired or absent token raises,
\* and every other refresh failure (another HTTP status, a transport error,
\* a missing refresh token, any failure without an external store) raises
\* whether or not the held token is still unexpired.
C20_DegradesOn400WithStore ==
    \A c \in Caller :
        (caller[c].failure # "none" /\ Finished(c))
            => IF caller[c].failure = "HTTP 400" /\ am.sqlite_db /\ caller[c].usable
               THEN caller[c].pc = "returned" /\ caller[c].result # 0
               ELSE caller[c].pc = "raised"

\* C20 witness: the refresh failed with HTTP 400 in SQLite mode while the
\* held token was inside the refresh threshold but unexpired, and the call
\* returned that token.
C20_Witness ==
    \E c \in Caller :
        /\ caller[c].failure = "HTTP 400"
        /\ caller[c].usable
        /\ am.sqlite_db
        /\ caller[c].pc = "returned"
        /\ caller[c].result = am.access_token

(***************************************************************************)
(* Claims about the account pool                                           *)
(***************************************************************************)

C5_ErrorCountExact ==
    \A a \in Acc :
        /\ db[a].error_count = expected[a]
        /\ expected[a] >= pool.error_threshold => ~db[a].is_active
        /\ (/\ expected[a] >= pool.error_threshold
            /\ \A k \in Worker : worker[k].pc = "idle")
               => a \notin pool.auth_managers

\* Refresh requests in flight for account a, over the manager the pool
\* caches and the managers it handed out before evicting them.
RefreshesInFlight(a) ==
    (IF a \in pool.cached_busy THEN 1 ELSE 0) + pool.stale_busy[a]

\* C14: at no time are two token-refresh requests in flight for the same
\* account, counted over every auth-manager instance the pool holds or has
\* handed out for it.
C14_OneRefreshPerAccount ==
    \A a \in Acc : RefreshesInFlight(a) <= 1

\* C15: once the operations that were running have finished, the pool's
\* auth-manager map has no entry for an account that is deleted or inactive.
C15_NoManagerForInactive ==
    (\A k \in Worker : worker[k].pc = "idle")
        => \A a \in pool.auth_managers : db[a].exists /\ db[a].is_active

(***************************************************************************)
(* Claims about the usage tracker                                          *)
(***************************************************************************)

\* Number of times record r occurs in sequence q.
Occurrences(q, r) == Cardinality({i \in 1..Len(q) : q[i] = r})

\* C10: when the bulk insert of a batch fails, the flush call returns and
\* every record of the batch is then in the pending queue again, exactly
\* once (or already stored by a later flush), none lost and none duplicated.
C10_FailedBatchRequeued ==
    \A k \in UTask :
        (utask[k].op = "requeue")
            ~> (/\ utask[k].pc = "idle"
                /\ \A r \in 1..ut.created :
                     \/ \E j \in UTask : Occurrences(utask[j].batch, r) > 0
                     \/ Occurrences(ut.pending_records, r)
                          + Occurrences(usage_db, r) = 1)

(***************************************************************************)
(* Claims about streaming and the request handler                          *)
(***************************************************************************)

\* C6: the first-token retry loop issues an upstream POST only while no
\* frame has been delivered to the client.
C6_NoRetryAfterDelivery ==
    sr.delivered_at_post = 0

\* C7: when a request has finished, on whatever exit path, every upstream
\* response it obtained is closed and its per-request client is closed.
C7_EverythingClosed ==
    \A h \in Handler :
        rq[h].pc = "done" => rq[h].open_responses = 0 /\ ~rq[h].client_open

\* C8: a request has completed acquire() on the rate limiter before its
\* first upstream POST, and has given its slot back when it has finished.
C8_AcquireBeforePost ==
    /\ Cardinality({h \in Handler : rq[h].posts > 0}) <= rl.total_requests
    /\ (\A h \in Handler : rq[h].pc = "done") => rl.current_count = 0

\* C16: a request that obtained an account from the pool has reported
\* exactly one outcome for it, report_success or report_error, by the time
\* it finishes, a client disconnect included.
C16_OneOutcomeReported ==
    \A h \in Handler :
        (rq[h].pc = "done" /\ rq[h].account_id # 0) => rq[h].reports = 1

(***************************************************************************)
(* Claims about request_with_retry                                         *)
(***************************************************************************)

\* Progress of one call: the turn of the loop, then the step inside it.
CallRank(c) ==
    IF c.pc = "done"
    THEN 3 * MaxRetries(c.stream) + 1
    ELSE IF c.pc = "idle"
    THEN 0
    ELSE 3 * c.attempt + (CASE c.pc = "attempt" -> 1
                            [] c.pc = "send" -> 2
                            [] c.pc = "refresh" -> 3)

\* C11 as stated: a call whose attempts all failed raises an HTTPException
\* with status 502 when stream is false and 504 when stream is true, and its
\* detail is the classified error message.
C11_Status502Or504ByStream ==
    \A h \in HCall :
        LET c == hc.calls[h]
        IN c.result = "HTTPException" =>
               /\ c.status_code = (IF c.stream THEN 504 ELSE 502)
               /\ c.classified

\* C11 amended: the HTTPException carries the status suggested by the
\* classification of the last network error (504 for a timeout, 502 for a
\* connection or request error) and the classified message, for either value
\* of stream; only when no attempt failed in the network, hence every turn
\* of the loop ended on a 403, 429 or 5xx answer, is the status 504 for
\* stream and 502 otherwise, with an "Unknown error" detail.
C11_StatusFromClassification ==
    \A h \in HCall :
        LET c == hc.calls[h]
        IN c.result = "HTTPException" =>
               IF c.last_error_info # 0
               THEN /\ c.status_code = c.last_error_info
                    /\ c.status_code \in {502, 504}
                    /\ c.classified
               ELSE /\ c.status_code = (IF c.stream THEN 504 ELSE 502)
                    /\ ~c.classified
                    /\ c.attempt = MaxRetries(c.stream) - 1

\* C11 witness: a call with stream false used every attempt, the last
\* failure was a timeout, and the HTTPException carries 504.
C11_Witness ==
    \E h \in HCall :
        LET c == hc.calls[h]
        IN /\ c.result = "HTTPException"
           /\ ~c.stream
           /\ c.posts = MaxRetries(c.stream)
           /\ c.status_code = 504
           /\ c.classified

\* C12: request_with_retry sends at most max_retries upstream requests
\* (FIRST_TOKEN_MAX_RETRIES for stream, MAX_RETRIES otherwise) and ends:
\* every step of a call moves it forward in the bounded order loop turn,
\* then position within the turn.
C12_TerminatesWithinMaxRetries ==
    [][\A h \in HCall :
          hc'.calls[h] # hc.calls[h] =>
              /\ CallRank(hc'.calls[h]) > CallRank(hc.calls[h])
              /\ CallRank(hc'.calls[h]) <= 3 * MaxRetries(hc.calls[h].stream) + 1
              /\ hc'.calls[h].attempt < MaxRetries(hc.calls[h].stream)
              /\ hc'.calls[h].posts <= MaxRetries(hc.calls[h].stream)]_vars

\* C12 witness: a call ended after exactly max_retries upstream requests
\* that met a 403, a 429 and a network error.
C12_Witness ==
    \E h \in HCall :
        LET c == hc.calls[h]
        IN /\ c.pc = "done"
           /\ c.result = "HTTPException"
           /\ c.posts = MaxRetries(c.stream)
           /\ c.forbidden > 0
           /\ c.throttled
           /\ c.last_error_info # 0

\* C13 as stated: every 403 answer is followed by exactly one
\* force_refresh() call, and while attempts remain the request is then
\* re-issued with the refreshed token.
C13_ReissuedWithRefreshedToken ==
    \A h \in HCall :
        LET c == hc.calls[h]
        IN /\ c.refreshes = c.forbidden
           /\ c.reissue # "stale"
           /\ c.pc = "done" => c.reissue # "owed"

\* C13 amended: every 403 answer is followed by exactly one force_refresh()
\* call; if that call returns and attempts remain, the next turn of the loop
\* follows and, unless its get_access_token() raises, re-issues the request
\* with a newer token.  A force_refresh() that raises either ends
\* request_with_retry with that exception or, for a transport error, is
\* handled as a network error of the attempt, after which the request may be
\* re-issued with the token that was refused.
C13_RefreshOncePer403 ==
    \A h \in HCall :
        LET c == hc.calls[h]
        IN /\ c.refreshes = c.forbidden
           /\ c.reissue = "stale" => ~c.refreshed
           /\ (c.reissue = "owed" /\ c.refreshed) => c.pc \in {"attempt", "done"}
           /\ (c.reissue = "owed" /\ c.pc = "done") => c.result \in {"error", "HTTPException"}

\* C13 witness: a 403 was answered, force_refresh() returned, and the
\* request went out again with a newer token.
C13_Witness ==
    \E h \in HCall :
        LET c == hc.calls[h]
        IN /\ c.forbidden = 1
           /\ c.refreshes = 1
           /\ c.refreshed
           /\ c.reissue = "fresh"
           /\ c.posts = 2

\* C17: once request_with_retry has received a 429 and retried, the rate
\* limiter has been notified, so its pause (backoff_until) is set.
C17_429NotifiesLimiter ==
    \A h \in HCall :
        (hc.calls[h].retried_429 /\ rl.backoff_429 > 0) =>
            /\ rl.total_429s > 0
            /\ rl.backoff_until > 0

(***************************************************************************)
(* Claims about the 429 backoff                                            *)
(***************************************************************************)

\* C18: the pause deadline backoff_until never decreases, whatever the
\* order of on_429_received() calls and whatever time.time() returns.
C18_PauseNeverDecreases ==
    [][rl'.backoff_until >= rl.backoff_until]_vars

\* C18 witness: a call has set the pause, the clock was set back, and the
\* next on_429_received() call computes an earlier deadline.
C18_Witness ==
    /\ rl.total_429s >= 1
    /\ rl.total_429s < Max429
    /\ now + rl.backoff_429 < rl.backoff_until

(***************************************************************************)
(* Claims about the stream emitters                                        *)
(***************************************************************************)

FramesOfType(type) == {i \in 1..Len(sw.frames) : sw.frames[i].type = type}

ContentFrameTypes == {"chunk", "tool_calls", "content_block_start",
                      "content_block_delta", "content_block_stop"}

\* The frame that ends a stream of this emitter when it is cut short.
TerminalFrame == IF sw.api = "openai" THEN "[DONE]" ELSE "error"

\* The frame that ends a stream of this emitter that ran to its end.
LastFrame == IF sw.api = "openai" THEN "[DONE]" ELSE "message_stop"

\* C21: a streaming request whose upstream response delivers no byte within
\* the first-token timeout is retried while fewer than
\* FIRST_TOKEN_MAX_RETRIES POSTs were issued: when it has finished after one
\* or two timeouts, a POST was issued after each timeout, every response is
\* closed, and the client has one complete stream and no error.
C21_RetriedUntilStreamed ==
    (sw.route /\ sw.pc = "done" /\ sw.timeouts \in 1..(FIRST_TOKEN_MAX_RETRIES - 1))
        => /\ sw.posts = sw.timeouts + 1
           /\ ~sw.response_open
           /\ sw.error = "none"
           /\ Cardinality(FramesOfType(LastFrame)) = 1

\* C22: when every attempt of a streaming request has ended in a
\* first-token timeout, the OpenAI client has an HTTP 504 answer, the
\* Anthropic client has a typed error event, and neither has a content frame.
C22_ExhaustionReported ==
    (sw.route /\ sw.pc = "done" /\ sw.error = "first_token_timeout")
        => /\ sw.api = "openai" => sw.status_code = 504
           /\ sw.api = "anthropic" => FramesOfType("error") # {}
           /\ \A i \in 1..Len(sw.frames) : sw.frames[i].type \notin ContentFrameTypes

Completed == sw.pc = "done" /\ sw.error = "none"

RecordWritten == sw.saved # {} \/ sw.saved_content

\* C27 as stated: no truncation record is written before the last frame of
\* the stream has been emitted, and every stream that completes with a tool
\* call tagged as truncated leaves a record for that tool-call id.
C27_WrittenAfterLastFrame ==
    /\ RecordWritten => /\ sw.frames # <<>>
                        /\ sw.frames[Len(sw.frames)].type = LastFrame
    /\ Completed => sw.truncated_tools \subseteq sw.saved

\* C27 amended: a record is written only with recovery switched on, and only
\* when every content and tool-call frame has been emitted: after
\* message_stop by the Anthropic emitter; after the tool_calls chunk, with
\* only the finish chunk and data: [DONE] still to come, by the OpenAI
\* emitter.  With recovery on, a completed stream has a record for exactly
\* the tool calls tagged as truncated.
C27_WrittenAfterReemission ==
    /\ RecordWritten =>
          /\ sw.recovery
          /\ sw.pc \in {"final", "done"}
          /\ sw.saved \subseteq sw.truncated_tools
          /\ sw.saved # {} /\ sw.api = "openai" => FramesOfType("tool_calls") # {}
          /\ sw.api = "openai" =>
                \E i \in FramesOfType("final_chunk") :
                    \A j \in 1..Len(sw.frames) :
                        sw.frames[j].type \in ContentFrameTypes => j < i
          /\ sw.api = "anthropic" =>
                /\ Completed
                /\ sw.frames[Len(sw.frames)].type = "message_stop"
    /\ Completed /\ sw.recovery => sw.saved = sw.truncated_tools
    /\ ~sw.recovery => ~RecordWritten

\* C27 witness: an Anthropic stream has completed with a truncated tool call
\* and its record is written.
C27_Witness ==
    /\ Completed /\ sw.api = "anthropic" /\ sw.recovery
    /\ sw.truncated_tools # {}
    /\ sw.saved = sw.truncated_tools

\* C28: a stream in which content was received counts as completed
\* normally: once the upstream stream has ended, no content truncation is
\* flagged or stored for it, whether or not usage or context_usage arrived.
C28_ContentMeansCompleted ==
    (sw.pc \in {"final", "done"} /\ sw.full_content)
        => /\ ~sw.content_was_truncated
           /\ ~sw.saved_content

\* The content blocks of the stream, by frame position.
BlockStarts == FramesOfType("content_block_start")

BlockStops == FramesOfType("content_block_stop")

\* C29: in an Anthropic stream the content blocks are strictly sequential.
\* Between a content_block_start and the next content_block_start or
\* message_delta lies a content_block_stop of the same index; every
\* content_block_stop and content_block_delta belongs to the block started
\* last; the n-th block started has index n - 1; a thinking block has
\* index 0.
C29_BlocksSequential ==
    sw.api = "anthropic" =>
        /\ \A i \in BlockStarts :
              /\ sw.frames[i].index = Cardinality({k \in BlockStarts : k < i})
              /\ sw.frames[i].block = "thinking" => sw.frames[i].index = 0
              /\ \A j \in (BlockStarts \cup FramesOfType("message_delta")) :
                    j > i => \E k \in BlockStops :
                                /\ i < k /\ k < j
                                /\ sw.frames[k].index = sw.frames[i].index
        /\ \A k \in (BlockStops \cup FramesOfType("content_block_delta")) :
              \E i \in BlockStarts :
                  /\ i < k
                  /\ sw.frames[i].index = sw.frames[k].index
                  /\ sw.frames[i].block = sw.frames[k].block
                  /\ \A j \in (BlockStarts \cup BlockStops) : ~(i < j /\ j < k)
        /\ \A k1, k2 \in BlockStops :
              sw.frames[k1].index = sw.frames[k2].index => k1 = k2

\* C29 witness: a completed Anthropic stream with a thinking block, a text
\* block and a tool_use block.
C29_Witness ==
    /\ sw.api = "anthropic" /\ Completed
    /\ \E i, j, k \in BlockStarts :
          /\ sw.frames[i].block = "thinking"
          /\ sw.frames[j].block = "text"
          /\ sw.frames[k].block = "tool_use"

\* C30: an OpenAI stream that completes without an exception has exactly
\* one chunk with finish_reason and usage, as its last frame but one,
\* followed by data: [DONE]; finish_reason is tool_calls if a tool_calls
\* chunk was emitted and stop otherwise; no content or tool_calls chunk
\* follows it.
C30_FinishChunkThenDone ==
    (sw.api = "openai" /\ Completed) =>
        LET n == Len(sw.frames)
        IN /\ n >= 2
           /\ sw.frames[n].type = "[DONE]"
           /\ sw.frames[n - 1].type = "final_chunk"
           /\ Cardinality(FramesOfType("final_chunk")) = 1
           /\ Cardinality(FramesOfType("[DONE]")) = 1
           /\ sw.frames[n - 1].block =
                 IF FramesOfType("tool_calls") # {} THEN "tool_calls" ELSE "stop"
           /\ \A i \in 1..n : sw.frames[i].type \in {"chunk", "tool_calls"} => i < n - 1
           /\ Cardinality(FramesOfType("tool_calls")) <= 1

\* C30 witness: a completed OpenAI stream with content and a tool_calls chunk.
C30_Witness ==
    /\ sw.api = "openai" /\ Completed
    /\ FramesOfType("chunk") # {}
    /\ FramesOfType("tool_calls") # {}

(***************************************************************************)
(* Claims about the event-stream parser                                    *)
(***************************************************************************)

\* The opening ordinals of the finalized calls, in list order.
FinalizedSerials == [i \in 1..Len(ps.tool_calls) |-> ps.tool_calls[i].serial]

OpenSerials == [i \in 1..Len(ps.current_tool_call) |-> ps.current_tool_call[i].serial]

\* C24: for any sequence of tool events, every tool_start opens one call and
\* every opened call is finalized exactly once, by its tool_stop, by the
\* next tool_start or at the end of the stream: at most one call is open,
\* the finalized calls followed by the open one are the opened calls in
\* opening order, and after get_tool_calls() none is open.
C24_OpenedFinalizedOnceInOrder ==
    /\ Len(ps.current_tool_call) <= 1
    /\ FinalizedSerials \o OpenSerials = [i \in 1..ps.opened |-> i]
    /\ [i \in 1..Len(ps.finalized) |-> ps.finalized[i].serial] = FinalizedSerials
    /\ \A i \in 1..Len(ps.finalized) :
          /\ ps.finalized[i].by = "tool_start" => ps.finalized[i].serial < ps.opened
          /\ ps.finalized[i].by = "end" => ps.pc = "ended" /\ i = ps.opened
    /\ ps.pc = "ended" => ps.current_tool_call = <<>> /\ Len(ps.tool_calls) = ps.opened

\* C24 witness: a stream has ended in which one call was finalized by the
\* next tool_start, one by its tool_stop and one at the end of the stream.
C24_Witness ==
    /\ ps.pc = "ended"
    /\ \A by \in {"tool_start", "tool_stop", "end"} :
          \E i \in 1..Len(ps.finalized) : ps.finalized[i].by = by

\* The entries of a tool-call list that carry the id.
WithId(tcs, id) == {i \in 1..Len(tcs) : tcs[i].id = id}

GivenIds == {id \in ToolUseIds : id # ""}

\* C25 as stated: the list the parser returns has no two entries that share
\* an id and whose arguments are both different from "{}" and from each
\* other; where several collected entries share an id, the one kept has
\* arguments that are not "{}" and are the longest of them.
C25_KeptNotEmptyAndLongest ==
    ps.pc = "ended" =>
        \A id \in GivenIds :
            /\ \A i, j \in WithId(ps.result, id) :
                  (ps.result[i].arguments # "{}" /\ ps.result[j].arguments # "{}")
                      => ps.result[i].arguments = ps.result[j].arguments
            /\ Cardinality(WithId(ps.tool_calls, id)) > 1 =>
                  \A i \in WithId(ps.result, id) :
                      /\ ps.result[i].arguments # "{}"
                      /\ \A j \in WithId(ps.tool_calls, id) :
                            Len(ps.result[i].arguments) >= Len(ps.tool_calls[j].arguments)

\* C25 amended: the returned list has at most one entry for an id.  That
\* entry is one of the collected entries of the id; if any of them has
\* arguments other than "{}", the kept one has too and none of those is
\* longer; if all have "{}", it has "{}".  No two returned entries have the
\* same name and arguments, and an id has no entry in the list only if an
\* entry with the name and arguments of one of its entries is in it.
C25_KeptLongestOfNonEmpty ==
    ps.pc = "ended" =>
        /\ \A id \in GivenIds :
              /\ Cardinality(WithId(ps.result, id)) <= 1
              /\ \A i \in WithId(ps.result, id) :
                    /\ \E j \in WithId(ps.tool_calls, id) : ps.tool_calls[j] = ps.result[i]
                    /\ \A j \in WithId(ps.tool_calls, id) :
                          ps.tool_calls[j].arguments # "{}" =>
                              /\ ps.result[i].arguments # "{}"
                              /\ Len(ps.result[i].arguments) >= Len(ps.tool_calls[j].arguments)
              /\ (WithId(ps.tool_calls, id) # {} /\ WithId(ps.result, id) = {}) =>
                    \E j \in WithId(ps.tool_calls, id), i \in 1..Len(ps.result) :
                        DedupKey(ps.result[i]) = DedupKey(ps.tool_calls[j])
        /\ \A i, j \in 1..Len(ps.result) :
              DedupKey(ps.result[i]) = DedupKey(ps.result[j]) => i = j

\* C25 witness: of two collected entries with one id, the first had "{}"
\* and the second, with other arguments, is the one returned.
C25_Witness ==
    /\ ps.pc = "ended"
    /\ \E id \in GivenIds :
          \E j1, j2 \in WithId(ps.tool_calls, id) :
              /\ j1 < j2
              /\ ps.tool_calls[j1].arguments = "{}"
              /\ ps.tool_calls[j2].arguments # "{}"
              /\ \E i \in WithId(ps.result, id) : ps.result[i] = ps.tool_calls[j2]

(***************************************************************************)
(* Claims about truncation recovery                                        *)
(***************************************************************************)

\* C26: consuming a truncation record removes it.  Once a request's tool
\* result for an id has been rewritten with the synthetic notice, a tool
\* result with that id in any later request is passed on unmodified, and
\* the record is no longer in the store.
C26_ConsumedRecordIsGone ==
    /\ \A i \in 1..Len(tr.last) :
          (tr.last[i].kind = "tool" /\ tr.last[i].key \in tr.noticed_before)
              => ~tr.last[i].modified
    /\ tr.noticed \cap tr.by_tool_call_id = {}

\* C26 witness: the latest request carries a tool result whose id was
\* rewritten in an earlier request, and it was passed on unmodified.
C26_Witness ==
    \E i \in 1..Len(tr.last) :
        /\ tr.last[i].kind = "tool"
        /\ tr.last[i].key \in tr.noticed_before
        /\ ~tr.last[i].modified

\* C31: in an OpenAI stream the first chunk sent to the client has
\* delta.role = "assistant", whether it is a content chunk, a thinking
\* chunk or the tool_calls chunk of a stream with tool calls only.
C31_FirstChunkHasRole ==
    (/\ sw.api = "openai"
     /\ sw.frames # <<>>
     /\ sw.frames[1].type \in {"chunk", "tool_calls"})
        => sw.frames[1].role

(***************************************************************************)
(* Claims about token accounting                                           *)
(***************************************************************************)

PercentObserved == tk.context_usage_percentage # NoPercent

TokensAbove == lim.limits.tokens # NoLimit /\ SumTokens(lim.rows) > lim.limits.tokens

RequestsAbove == lim.limits.requests # NoLimit /\ Len(lim.rows) > lim.limits.requests

TokensReached == lim.limits.tokens # NoLimit /\ SumTokens(lim.rows) = lim.limits.tokens

RequestsReached == lim.limits.requests # NoLimit /\ Len(lim.rows) = lim.limits.requests

\* C33 as stated: a request is rejected with 429 exactly when the usage
\* recorded for its key exceeds a configured token or request limit; usage
\* at or below the limits is admitted.
C33_RejectedIffAbove ==
    lim.pc = "done" =>
        (lim.status_code = 429 <=> (TokensAbove \/ RequestsAbove))

\* C33 amended: a request of a key that still exists is rejected with 429
\* exactly when the usage recorded for the key has reached or exceeded a
\* configured limit; a limit of 0 or NULL is no limit.  A key with request
\* limit L is thus admitted while fewer than L requests are recorded.  A
\* key deleted after its validation is rejected with 429 too.
C33_RejectedIffReached ==
    lim.pc = "done" =>
        /\ lim.status_code \in {200, 429}
        /\ lim.key # <<>> =>
              (lim.status_code = 429 <=>
                  (TokensAbove \/ TokensReached \/ RequestsAbove \/ RequestsReached))
        /\ lim.key = <<>> => lim.status_code = 429
        /\ lim.limit_error = "Request limit exceeded" => ~(TokensAbove \/ TokensReached)

\* C33 witness: a key whose recorded requests equal its request limit, the
\* token limit not reached, was rejected.
C33_Witness ==
    /\ lim.pc = "done"
    /\ lim.key # <<>>
    /\ RequestsReached
    /\ ~(TokensAbove \/ TokensReached)
    /\ lim.status_code = 429

(***************************************************************************)
(* Claims about the model resolver                                         *)
(***************************************************************************)

\* C34: normalization is idempotent: resolving the normalized name of a
\* model name again yields the same normalized name.
C34_NormalizationIdempotent ==
    mr.pc = "resolved_again" => mr.second[1].normalized = mr.first[1].normalized

(***************************************************************************)
(* Claims about the slot queue under cancellation                          *)
(***************************************************************************)

\* C35: if every admitted request eventually calls release(), every
\* request waiting in the slot queue eventually leaves it: it is admitted
\* (or its task was cancelled); no wake-up is lost.
C35_WaitersAdmitted ==
    \A t \in Req : (task[t].pc = "slot_wait") ~> (task[t].pc # "slot_wait")

\* C36: cancelling a task that waits in the slot queue loses no slot: the
\* active counter still equals the number of requests that hold a slot, so
\* max_concurrent slots remain usable.
C36_NoSlotLost ==
    rl.max_concurrent > 0 =>
        rl.current_count = Cardinality({t \in Req : HoldsSlot(t)})

\* C37: every record_request and flush call of the usage tracker eventually
\* returns, and on return the caller does not hold the tracker's lock, also
\* when the bulk insert fails.
C37_CallsReturnLockFree ==
    \A k \in UTask :
        (utask[k].pc # "idle")
            ~> (utask[k].pc = "idle" /\ ut.lock.locked_by # k)

(***************************************************************************)
(* Claims about forced refreshes                                           *)
(***************************************************************************)

\* C38: when several requests of one account receive a 403 for the same
\* stale token, the token is refreshed once: no two forced refreshes
\* answer the rejection of the same token.
C38_OneRefreshPerStaleToken ==
    \A i, j \in 1..Len(fr.forced) : fr.forced[i] = fr.forced[j] => i = j

(***************************************************************************)
(* Claims about report_success                                             *)
(***************************************************************************)

\* C39: report_success changes only the error bookkeeping of its account:
\* the step that commits its UPDATE leaves is_active, priority and the other
\* rows alone; an account that report_error deactivated stays inactive
\* through every pool operation and no selection made meanwhile returns it.
C39_SuccessNeverReactivates ==
    [][\A a \in Acc :
          /\ ~db[a].is_active => ~db'[a].is_active
          /\ (~db[a].is_active /\ selections'.count # selections.count)
                => selections'.selected # a
          /\ \A k \in Worker :
                (worker[k].pc = "rs_update" /\ worker'[k].pc = "idle")
                    => /\ db'[a].is_active = db[a].is_active
                       /\ db'[a].priority = db[a].priority
                       /\ db'[a].exists = db[a].exists
                       /\ a # worker[k].account_id => db'[a] = db[a]
                       /\ a = worker[k].account_id /\ db[a].exists
                              => db'[a].error_count = 0]_vars

\* C39 witness: report_success has reset the error count of an account that
\* report_error had deactivated, and the account is still inactive.
C39_Witness ==
    \E a \in Acc : db[a].exists /\ ~db[a].is_active /\ db[a].error_count = 0

(***************************************************************************)
(* Claims about the error request_with_retry raises                        *)
(***************************************************************************)

\* C40: the HTTPException raised when the attempts are used up describes
\* the failure of the last attempt: when the last attempt is answered 429,
\* or answered 403 and followed by a refresh that succeeds, the exception
\* raised by that step does not carry the classified message and code of
\* a network error of an earlier attempt.
C40_ErrorDescribesLastAttempt ==
    [][\A h \in HCall :
          LET c == hc.calls[h]
              d == hc'.calls[h]
          IN (/\ d.result = "HTTPException"
              /\ \/ c.pc = "send" /\ ~c.throttled /\ d.throttled
                 \/ c.pc = "refresh" /\ d.refreshed)
                => ~d.classified]_vars

=============================================================================
